---- MODULE Spec2Model ----
(***************************************************************************)
(* Model of the comment processing pipeline of the GitHub PR review        *)
(* analyzer (src/src/processors.ts, src/src/cli.ts).                       *)
(*                                                                         *)
(* Strings are sequences of characters (one-character strings; a code unit *)
(* outside ASCII is written "U+XXXX"), so that lower-casing, stripping,    *)
(* substring search and the regular expressions are computed, not assumed. *)
(***************************************************************************)
EXTENDS Integers, Sequences, FiniteSets, TLC

VARIABLES
    comments,   \* the batch of comments handed to the processor
    ret,        \* the value returned by the last processor call
    op,         \* the last processor call ("load" while the batch is built)
    raw,        \* a raw reaction-kind string
    norm,       \* normalizeReactionType(raw), or NotCalled
    prs,        \* the pull requests handed to a filter or loaded by the CLI
    arg,        \* the second argument of the last call (period, reviewer, body)
    cmd,        \* the CLI command being run and its options
    pc,         \* the position of the CLI command in its handler
    io,         \* what the CLI command has printed, written and called so far
    summary,    \* the summary metrics computed by the analyze command
    client      \* the GitHub client (authentication state and call history)

vars == <<comments, ret, op, raw, norm, prs, arg, cmd, pc, io, summary, client>>

\* The variables of the command line and of the client, untouched by the processor.
cliVars == <<cmd, pc, io, summary, client>>

(***************************************************************************)
(* Characters and strings (String.prototype.toLowerCase, includes).        *)
(***************************************************************************)
UpperCase == <<"A", "B", "C", "D", "E", "F", "G", "H", "I", "J", "K", "L", "M",
               "N", "O", "P", "Q", "R", "S", "T", "U", "V", "W", "X", "Y", "Z">>

LowerCase == <<"a", "b", "c", "d", "e", "f", "g", "h", "i", "j", "k", "l", "m",
               "n", "o", "p", "q", "r", "s", "t", "u", "v", "w", "x", "y", "z">>

LowerLetters == {LowerCase[i] : i \in DOMAIN LowerCase}

Digits == {"0", "1", "2", "3", "4", "5", "6", "7", "8", "9"}

toLowerChar(c) ==
    IF \E i \in DOMAIN UpperCase : UpperCase[i] = c
    THEN LowerCase[CHOOSE i \in DOMAIN UpperCase : UpperCase[i] = c]
    ELSE c

toLowerCase(s) == [i \in DOMAIN s |-> toLowerChar(s[i])]

\* s.includes(sub)
includes(s, sub) ==
    \E i \in 0..(Len(s) - Len(sub)) : \A j \in 1..Len(sub) : s[i + j] = sub[j]

(***************************************************************************)
(* Reaction kinds (Reaction['type']).                                      *)
(***************************************************************************)
thumbs_up == <<"t", "h", "u", "m", "b", "s", "_", "u", "p">>
thumbs_down == <<"t", "h", "u", "m", "b", "s", "_", "d", "o", "w", "n">>
laugh == <<"l", "a", "u", "g", "h">>
hooray == <<"h", "o", "o", "r", "a", "y">>
confused == <<"c", "o", "n", "f", "u", "s", "e", "d">>
heart == <<"h", "e", "a", "r", "t">>
rocket == <<"r", "o", "c", "k", "e", "t">>
eyes == <<"e", "y", "e", "s">>
unknown == <<"u", "n", "k", "n", "o", "w", "n">>

\* The closed enumeration of reaction kinds.
ReactionTypes ==
    {thumbs_up, thumbs_down, laugh, hooray, confused, heart, rocket, eyes, unknown}

\* validTypes of normalizeReactionType.
validTypes == {thumbs_up, thumbs_down, laugh, hooray, confused, heart, rocket, eyes}

(***************************************************************************)
(* The alias table of normalizeReactionType: an object literal, so a       *)
(* lookup that misses its own keys continues in Object.prototype.          *)
(***************************************************************************)
k_plus_one == <<"p", "l", "u", "s", "_", "o", "n", "e">>
k_plusone == <<"p", "l", "u", "s", "o", "n", "e">>
k_plus1 == <<"+", "1">>
k_minus_one == <<"m", "i", "n", "u", "s", "_", "o", "n", "e">>
k_minusone == <<"m", "i", "n", "u", "s", "o", "n", "e">>
k_minus1 == <<"-", "1">>
k_tada == <<"t", "a", "d", "a">>
k_party == <<"p", "a", "r", "t", "y">>
k_celebrate == <<"c", "e", "l", "e", "b", "r", "a", "t", "e">>

aliases ==
    (k_plus_one :> thumbs_up) @@ (k_plusone :> thumbs_up) @@ (k_plus1 :> thumbs_up)
    @@ (k_minus_one :> thumbs_down) @@ (k_minusone :> thumbs_down)
    @@ (k_minus1 :> thumbs_down)
    @@ (k_tada :> hooray) @@ (k_party :> hooray) @@ (k_celebrate :> hooray)

k_constructor == <<"c", "o", "n", "s", "t", "r", "u", "c", "t", "o", "r">>
k_proto == <<"_", "_", "p", "r", "o", "t", "o", "_", "_">>
k_toString == <<"t", "o", "S", "t", "r", "i", "n", "g">>
k_valueOf == <<"v", "a", "l", "u", "e", "O", "f">>
k_hasOwnProperty == <<"h", "a", "s", "O", "w", "n", "P", "r", "o", "p", "e", "r", "t", "y">>

\* Values that are not strings: the function Object and the object
\* Object.prototype, each written as a one-element sequence.
ObjectFunction == <<"[Function: Object]">>
ObjectPrototype == <<"[Object: null prototype] {}">>
BuiltinFunction == <<"[Function (builtin)]">>
Undefined == <<"undefined">>

\* The properties every object literal inherits (case-sensitive names).
inherited ==
    (k_constructor :> ObjectFunction) @@ (k_proto :> ObjectPrototype)
    @@ (k_toString :> BuiltinFunction) @@ (k_valueOf :> BuiltinFunction)
    @@ (k_hasOwnProperty :> BuiltinFunction)

\* aliases[key]
aliasLookup(key) ==
    IF key \in DOMAIN aliases THEN aliases[key]
    ELSE IF key \in DOMAIN inherited THEN inherited[key]
    ELSE Undefined

\* type.toLowerCase().replace(/[^a-z_]/g, '')
IsKept(c) == c \in LowerLetters \cup {"_"}

stripNonLetters(s) == SelectSeq(toLowerCase(s), IsKept)

normalizeReactionType(type) ==
    LET normalized == stripNonLetters(type)
    IN  IF normalized \in validTypes THEN normalized
        ELSE IF aliasLookup(normalized) # Undefined THEN aliasLookup(normalized)
        ELSE unknown

(***************************************************************************)
(* Resolution detection (isCommentResolved and its three checks).          *)
(***************************************************************************)
m_resolved == <<"[", "r", "e", "s", "o", "l", "v", "e", "d", "]">>
m_check == <<"U+2705">>
m_fixed == <<"[", "f", "i", "x", "e", "d", "]">>
m_done == <<"[", "d", "o", "n", "e", "]">>
m_box == <<"U+2611", "U+FE0F">>
m_completed == <<"[", "c", "o", "m", "p", "l", "e", "t", "e", "d", "]">>

explicitMarkers == {m_resolved, m_check, m_fixed, m_done, m_box, m_completed}

w_resolved == <<"r", "e", "s", "o", "l", "v", "e", "d">>
w_fixed == <<"f", "i", "x", "e", "d">>
w_done == <<"d", "o", "n", "e">>
w_completed == <<"c", "o", "m", "p", "l", "e", "t", "e", "d">>
w_addressed == <<"a", "d", "d", "r", "e", "s", "s", "e", "d">>
w_implemented == <<"i", "m", "p", "l", "e", "m", "e", "n", "t", "e", "d">>
w_updated == <<"u", "p", "d", "a", "t", "e", "d">>

resolutionKeywords ==
    {w_resolved, w_fixed, w_done, w_completed, w_addressed, w_implemented, w_updated}

\* A Date that is absent (undefined); real timestamps are >= 0.
NoDate == -1

hasExplicitResolutionMarkersExact(comment) ==
    \E marker \in explicitMarkers : includes(comment.body, marker)

hasExplicitResolutionMarkers(comment) ==
    LET bodyLower == toLowerCase(comment.body)
    IN  \E marker \in explicitMarkers : includes(bodyLower, marker)

isPositiveReaction(type) == type \in {thumbs_up, heart, hooray, rocket}

isNegativeReaction(type) == type \in {thumbs_down, confused}

\* The policy threshold of hasResolutionThroughEngagement.
MinPositiveReactions == 2

\* Faulty variant: one positive reaction suffices.
hasResolutionThroughEngagementAny(comment) ==
    Len(SelectSeq(comment.reactions, LAMBDA r : isPositiveReaction(r.type))) >= 1

hasResolutionThroughEngagement(comment) ==
    IF Len(comment.reactions) = 0 THEN FALSE
    ELSE LET positiveReactions ==
                 SelectSeq(comment.reactions, LAMBDA r : isPositiveReaction(r.type))
         IN  Len(positiveReactions) >= MinPositiveReactions

hasResolutionThroughEdits(comment) ==
    IF comment.updatedAt # NoDate /\ comment.updatedAt > comment.createdAt
    THEN LET bodyLower == toLowerCase(comment.body)
         IN  \E keyword \in resolutionKeywords : includes(bodyLower, keyword)
    ELSE FALSE

isCommentResolved(comment) ==
    IF hasExplicitResolutionMarkers(comment) THEN TRUE
    ELSE IF hasResolutionThroughEngagement(comment) THEN TRUE
    ELSE IF hasResolutionThroughEdits(comment) THEN TRUE
    ELSE FALSE

detectResolutionRebuilding(cs) ==
    IF Len(cs) = 0 THEN <<>>
    ELSE [i \in DOMAIN cs |->
            [cs[i] EXCEPT !.isResolved = isCommentResolved(cs[i]), !.reactions = <<>>]]

detectResolution(cs) ==
    IF Len(cs) = 0 THEN <<>>
    ELSE [i \in DOMAIN cs |-> [cs[i] EXCEPT !.isResolved = isCommentResolved(cs[i])]]

(***************************************************************************)
(* Reaction classification and the synthetic reaction.                     *)
(***************************************************************************)
w_in_commit == <<" ", "i", "n", " ", "c", "o", "m", "m", "i", "t", " ">>

HexDigits == Digits \cup {"a", "b", "c", "d", "e", "f"}

\* [a-f0-9]{6,40}: the least and the greatest number of characters taken.
MinHashLen == 6
MaxHashLen == 40

\* /<word> in commit [a-f0-9]{6,40}/i matches s at offset i (0-based).
matchesAt(s, i, word) ==
    LET lit == word \o w_in_commit
    IN  /\ i + Len(lit) + MinHashLen <= Len(s)
        /\ \A j \in 1..Len(lit) : toLowerChar(s[i + j]) = lit[j]
        /\ \A j \in 1..MinHashLen : toLowerChar(s[i + Len(lit) + j]) \in HexDigits

\* pattern.test(body)
regexTest(s, word) == \E i \in 0..Len(s) : matchesAt(s, i, word)

hasCodeRabbitResolutionMessage(comment) ==
    \E word \in {w_addressed, w_fixed, w_resolved, w_updated} :
        regexTest(comment.body, word)

syntheticReaction(comment) ==
    [type |-> thumbs_up,
     user |-> comment.author,
     createdAt |-> IF comment.updatedAt # NoDate THEN comment.updatedAt
                   ELSE comment.createdAt,
     synthetic |-> TRUE]

\* Faulty variant: the synthetic reaction replaces the existing ones.
classifyOneReplacing(comment) ==
    LET reactions == [k \in DOMAIN comment.reactions |->
                        [comment.reactions[k] EXCEPT
                            !.type = normalizeReactionType(comment.reactions[k].type)]]
    IN  [comment EXCEPT !.reactions =
            IF hasCodeRabbitResolutionMessage(comment)
            THEN <<syntheticReaction(comment)>>
            ELSE reactions]

\* The body of the map callback of classifyReactions.
classifyOne(comment) ==
    LET reactions == [k \in DOMAIN comment.reactions |->
                        [comment.reactions[k] EXCEPT
                            !.type = normalizeReactionType(comment.reactions[k].type)]]
    IN  [comment EXCEPT !.reactions =
            IF hasCodeRabbitResolutionMessage(comment)
            THEN Append(reactions, syntheticReaction(comment))
            ELSE reactions]

classifyReactions(cs) ==
    IF Len(cs) = 0 THEN <<>>
    ELSE [i \in DOMAIN cs |-> classifyOne(cs[i])]


(***************************************************************************)
(* Reply linking (detectReplies, findHumanReplies and their helpers).      *)
(***************************************************************************)
p_bot == <<"b", "o", "t">>
p_bracket_bot == <<"[", "b", "o", "t", "]">>
p_dependabot == <<"d", "e", "p", "e", "n", "d", "a", "b", "o", "t">>
p_renovate == <<"r", "e", "n", "o", "v", "a", "t", "e">>
p_github_actions == <<"g", "i", "t", "h", "u", "b", "-", "a", "c", "t", "i", "o", "n", "s">>
p_codecov == <<"c", "o", "d", "e", "c", "o", "v">>
p_sonarcloud == <<"s", "o", "n", "a", "r", "c", "l", "o", "u", "d">>
p_coderabbit == <<"c", "o", "d", "e", "r", "a", "b", "b", "i", "t">>

\* /^<p>/i.test(s) and /<p>$/i.test(s)
startsWithIgnoreCase(s, p) ==
    /\ Len(p) <= Len(s)
    /\ \A j \in 1..Len(p) : toLowerChar(s[j]) = p[j]

endsWithIgnoreCase(s, p) ==
    /\ Len(p) <= Len(s)
    /\ \A j \in 1..Len(p) : toLowerChar(s[Len(s) - Len(p) + j]) = p[j]

\* botPatterns.some(pattern => pattern.test(login))
matchesBotPattern(login) ==
    \/ endsWithIgnoreCase(login, p_bot)
    \/ includes(toLowerCase(login), p_bracket_bot)
    \/ \E p \in {p_dependabot, p_renovate, p_github_actions, p_codecov,
                 p_sonarcloud, p_coderabbit} : startsWithIgnoreCase(login, p)

\* Faulty variants: only one of the two checks is applied.
isHumanUserTypeOnly(user) == user.type # "Bot"

isHumanUserLoginOnly(user) == ~matchesBotPattern(user.login)

isHumanUser(user) ==
    IF user.type = "Bot" THEN FALSE
    ELSE ~matchesBotPattern(user.login)

w_thanks == <<"t", "h", "a", "n", "k", "s">>
w_thank_you == <<"t", "h", "a", "n", "k", " ", "y", "o", "u">>
w_good_point == <<"g", "o", "o", "d", " ", "p", "o", "i", "n", "t">>
w_youre_right == <<"y", "o", "u", "'", "r", "e", " ", "r", "i", "g", "h", "t">>
w_agreed == <<"a", "g", "r", "e", "e", "d">>
w_disagree == <<"d", "i", "s", "a", "g", "r", "e", "e">>
w_actually == <<"a", "c", "t", "u", "a", "l", "l", "y">>
w_however == <<"h", "o", "w", "e", "v", "e", "r">>

replyIndicators ==
    {w_thanks, w_thank_you, w_fixed, w_done, w_updated, w_addressed, w_good_point,
     w_youre_right, w_agreed, w_disagree, w_actually, w_however}

hasConversationalIndicators(potentialReply, originalComment) ==
    LET replyBody == toLowerCase(potentialReply.body)
        originalAuthor == toLowerCase(originalComment.author.login)
    IN  IF includes(replyBody, <<"@">> \o originalAuthor) THEN TRUE
        ELSE \E indicator \in replyIndicators : includes(replyBody, indicator)

\* 7 * 24 * 60 * 60 * 1000
maxReplyWindow == 604800000

\* commentMap.set(comment.id, comment) for each comment in turn: a Map keeps
\* its keys in insertion order, and setting a present key replaces its value
\* in place.  The map is the sequence of its values.
RECURSIVE buildCommentMap(_, _)
buildCommentMap(cs, map) ==
    IF cs = <<>> THEN map
    ELSE LET c == Head(cs)
             present == {k \in DOMAIN map : map[k].id = c.id}
         IN  buildCommentMap(Tail(cs),
                 IF present = {} THEN Append(map, c)
                 ELSE [k \in DOMAIN map |-> IF k \in present THEN c ELSE map[k]])

\* Faulty variant: no upper limit on the time difference.
isConversationalReplyNoWindow(potentialReply, comment) ==
    /\ ~(potentialReply.id = comment.id \/ ~isHumanUser(potentialReply.author))
    /\ potentialReply.createdAt - comment.createdAt > 0
    /\ hasConversationalIndicators(potentialReply, comment)

\* The test the loop of findConversationalReplies applies to each entry.
isConversationalReply(potentialReply, comment) ==
    /\ ~(potentialReply.id = comment.id \/ ~isHumanUser(potentialReply.author))
    /\ LET timeDiff == potentialReply.createdAt - comment.createdAt
       IN  timeDiff > 0 /\ timeDiff <= maxReplyWindow
    /\ hasConversationalIndicators(potentialReply, comment)

findConversationalReplies(comment, commentMap) ==
    SelectSeq(commentMap, LAMBDA p : isConversationalReply(p, comment))

\* The test of the first loop of findHumanReplies.
isDirectHumanReply(potentialReply, comment) ==
    /\ potentialReply.inReplyToId = comment.id
    /\ isHumanUser(potentialReply.author)

\* replies.sort((a, b) => a.createdAt.getTime() - b.createdAt.getTime()):
\* Array.prototype.sort is stable, so the result is that of insertion sort.
insertByCreatedAt(sorted, c) ==
    LET before == {k \in DOMAIN sorted : sorted[k].createdAt <= c.createdAt}
        n == IF before = {} THEN 0
             ELSE CHOOSE k \in before : \A m \in before : m <= k
    IN  SubSeq(sorted, 1, n) \o <<c>> \o SubSeq(sorted, n + 1, Len(sorted))

RECURSIVE sortFrom(_, _)
sortFrom(rest, sorted) ==
    IF rest = <<>> THEN sorted
    ELSE sortFrom(Tail(rest), insertByCreatedAt(sorted, Head(rest)))

\* Faulty variant: the replies are left in collection order.
sortUnsorted(replies) == replies

sortByCreatedAt(replies) == sortFrom(replies, <<>>)

\* Faulty variant: the heuristic runs whether or not direct replies exist.
findHumanRepliesMerged(comment, commentMap) ==
    sortByCreatedAt(SelectSeq(commentMap,
        LAMBDA p : isDirectHumanReply(p, comment) \/ isConversationalReply(p, comment)))

findHumanReplies(comment, commentMap) ==
    LET direct == SelectSeq(commentMap, LAMBDA p : isDirectHumanReply(p, comment))
        replies == IF Len(direct) = 0
                   THEN direct \o findConversationalReplies(comment, commentMap)
                   ELSE direct
    IN  sortByCreatedAt(replies)

detectReplies(cs) ==
    IF Len(cs) = 0 THEN <<>>
    ELSE LET commentMap == buildCommentMap(cs, <<>>)
         IN  [i \in DOMAIN cs |->
                [cs[i] EXCEPT !.replies = findHumanReplies(cs[i], commentMap)]]

\* processor.classifyReactions(processor.detectReplies(processor.detectResolution(comments)))
processComments(cs) == classifyReactions(detectReplies(detectResolution(cs)))

(***************************************************************************)
(* Raw reaction strings: every string over RawAlphabet up to MaxRawLen     *)
(* characters, and a list of samples.                                      *)
(***************************************************************************)
MaxRawLen == 4

RawAlphabet == {"e", "y", "s", "E", "+", "-", "1", "_"}

raw_THUMBS_UP == <<"T", "H", "U", "M", "B", "S", "_", "U", "P">>
raw_ThumbsUp == <<"T", "h", "u", "m", "b", "s", " ", "U", "p">>
raw_PlusOne == <<"P", "l", "u", "s", "O", "n", "e">>
raw_Heart == <<"H", "e", "a", "r", "t", "!">>
raw_TaDa == <<"T", "a", "-", "D", "a">>

RawSamples ==
    ReactionTypes
    \cup {k_plus_one, k_plusone, k_minus_one, k_minusone, k_tada, k_party, k_celebrate}
    \cup {k_constructor, k_proto, k_toString, k_valueOf, k_hasOwnProperty}
    \cup {raw_THUMBS_UP, raw_ThumbsUp, raw_PlusOne, raw_Heart, raw_TaDa}

NotCalled == <<"not called">>

\* No command has been started: nothing printed, nothing written, and the
\* process exit code still the default 0.
NoCommand == [name |-> "none"]
NoConfig == [owner |-> <<>>, repo |-> <<>>, reviewer |-> <<>>,
             period |-> [start |-> 0, end |-> 0]]
QuietIO == [exit |-> 0, stderr |-> <<>>, stdout |-> <<>>, calls |-> <<>>,
            report |-> "absent", dataFile |-> "absent", config |-> NoConfig]
NoSummary == [totalPRs |-> 0, totalComments |-> 0, averageCommentsPerPr |-> 0,
              resolvedComments |-> 0, resolvedPercentage |-> 0,
              repliedComments |-> 0, repliedPercentage |-> 0,
              positiveReactions |-> 0, negativeReactions |-> 0,
              positivePercentage |-> 0, negativePercentage |-> 0]
NewGitHubClient == [authenticated |-> FALSE, history |-> <<>>]

InitCli ==
    /\ cmd = NoCommand
    /\ pc = "idle"
    /\ io = QuietIO
    /\ summary = NoSummary
    /\ client = NewGitHubClient

InitNormalize ==
    /\ raw = <<>>
    /\ norm = NotCalled
    /\ comments = <<>>
    /\ ret = <<>>
    /\ op = "load"
    /\ prs = <<>>
    /\ arg = <<>>
    /\ InitCli

\* The caller types one more character of the raw string.
AppendChar ==
    /\ norm = NotCalled
    /\ Len(raw) < MaxRawLen
    /\ \E c \in RawAlphabet : raw' = Append(raw, c)
    /\ UNCHANGED <<norm, comments, ret, op, prs, arg, cliVars>>

\* The caller supplies one of the sample strings.
PickSample ==
    /\ norm = NotCalled
    /\ raw = <<>>
    /\ \E s \in RawSamples : raw' = s
    /\ UNCHANGED <<norm, comments, ret, op, prs, arg, cliVars>>

\* normalizeReactionType(raw)
Normalize ==
    /\ norm = NotCalled
    /\ norm' = normalizeReactionType(raw)
    /\ UNCHANGED <<raw, comments, ret, op, prs, arg, cliVars>>

NextNormalize == AppendChar \/ PickSample \/ Normalize

SpecNormalize == InitNormalize /\ [][NextNormalize]_vars

(***************************************************************************)
(* Users and comments.                                                     *)
(***************************************************************************)
l_alice == <<"a", "l", "i", "c", "e">>
l_rabbit == <<"c", "o", "d", "e", "r", "a", "b", "b", "i", "t", "a", "i", "[", "b", "o", "t", "]">>
l_ci == <<"C", "I", "-", "B", "o", "t">>
l_octo == <<"O", "c", "t", "o">>

u_alice == [login |-> l_alice, type |-> "User"]
u_rabbit == [login |-> l_rabbit, type |-> "Bot"]
u_ci == [login |-> l_ci, type |-> "User"]
u_octo == [login |-> l_octo, type |-> "Bot"]

\* An inReplyToId that is absent (undefined); comment ids are >= 1.
NoId == 0

NewComment(id, body, author, createdAt, updatedAt, inReplyToId, reactions) ==
    [id |-> id, body |-> body, author |-> author, createdAt |-> createdAt,
     updatedAt |-> updatedAt, inReplyToId |-> inReplyToId, isResolved |-> FALSE,
     reactions |-> reactions, replies |-> <<>>]

(***************************************************************************)
(* The comments of the resolution runs: one comment, its body one of the   *)
(* sample bodies, with up to MaxReactions raw reactions, edited or not.    *)
(***************************************************************************)
b_plain == <<"L", "o", "o", "k", "s", " ", "o", "d", "d">>
b_marker_upper == <<"[", "R", "E", "S", "O", "L", "V", "E", "D", "]", " ", "d", "o", "n", "e">>
b_marker_fixed == <<"s", "e", "e", " ", "[", "F", "i", "x", "e", "d", "]">>
b_marker_done == <<"[", "d", "o", "n", "e", "]">>
b_marker_completed == <<"[", "C", "O", "M", "P", "L", "E", "T", "E", "D", "]">>
b_check == <<"o", "k", " ", "U+2705">>
b_box == <<"U+2611", "U+FE0F">>
b_box_text == <<"U+2611">>
b_keyword == <<"F", "i", "x", "e", "d", " ", "t", "h", "e", " ", "t", "y", "p", "o">>
b_commit == <<"F", "i", "x", "e", "d", " ", "i", "n", " ", "c", "o", "m", "m", "i", "t", " ", "a", "b", "c", "1", "2", "3", "4", "5", "6", "7">>
b_commit_upper == <<"A", "D", "D", "R", "E", "S", "S", "E", "D", " ", "I", "N", " ", "C", "O", "M", "M", "I", "T", " ", "A", "B", "C", "D", "E", "F">>
b_commit_short == <<"r", "e", "s", "o", "l", "v", "e", "d", " ", "i", "n", " ", "c", "o", "m", "m", "i", "t", " ", "a", "b", "c", "1", "2">>
b_commit_nohex == <<"u", "p", "d", "a", "t", "e", "d", " ", "i", "n", " ", "c", "o", "m", "m", "i", "t", " ", "g", "h", "i", "j", "k", "l">>
b_commit_bare == <<"s", "e", "e", " ", "c", "o", "m", "m", "i", "t", " ", "a", "b", "c", "1", "2", "3", "4">>

ResolutionBodies ==
    {b_plain, b_marker_upper, b_marker_fixed, b_marker_done, b_marker_completed,
     b_check, b_box, b_box_text, b_keyword, b_commit, b_commit_upper,
     b_commit_short, b_commit_nohex, b_commit_bare}

MaxReactions == 2

RawReactionTypes == {thumbs_up, heart, thumbs_down, raw_PlusOne}

\* A reaction as collected: no synthetic flag (undefined, read as false).
RawReactions ==
    {[type |-> t, user |-> u_alice, createdAt |-> 2000, synthetic |-> FALSE] :
        t \in RawReactionTypes}

ReactionLists ==
    UNION {[1..n -> RawReactions] : n \in 0..MaxReactions}

\* updatedAt is absent, equal to createdAt, or later.
ResolutionComments ==
    {NewComment(1, b, a, t, u, NoId, rs) :
        b \in ResolutionBodies, a \in {u_rabbit, u_alice}, t \in {1000},
        u \in {NoDate, 1000, 1001}, rs \in ReactionLists}

(***************************************************************************)
(* The processor calls.                                                    *)
(***************************************************************************)
InitProcessor ==
    /\ comments = <<>>
    /\ ret = <<>>
    /\ op = "load"
    /\ prs = <<>>
    /\ arg = <<>>
    /\ InitCli
    /\ raw = <<>>
    /\ norm = NotCalled

\* The batch is one comment with reactions.
LoadResolution ==
    /\ op = "load"
    /\ Len(comments) = 0
    /\ \E c \in ResolutionComments : comments' = <<c>>
    /\ UNCHANGED <<ret, op, raw, norm, prs, arg, cliVars>>

DetectResolution ==
    /\ op = "load"
    /\ ret' = detectResolution(comments)
    /\ op' = "detectResolution"
    /\ UNCHANGED <<comments, raw, norm, prs, arg, cliVars>>

ClassifyReactions ==
    /\ op = "load"
    /\ ret' = classifyReactions(comments)
    /\ op' = "classifyReactions"
    /\ UNCHANGED <<comments, raw, norm, prs, arg, cliVars>>

\* The processing step of the analyze command (it returns early on an empty
\* comment list).
Analyze ==
    /\ op = "load"
    /\ Len(comments) # 0
    /\ ret' = processComments(comments)
    /\ op' = "analyze"
    /\ UNCHANGED <<comments, raw, norm, prs, arg, cliVars>>

NextResolution == LoadResolution \/ DetectResolution \/ ClassifyReactions \/ Analyze

SpecResolution == InitProcessor /\ [][NextResolution]_vars

(***************************************************************************)
(* The comments of the reply runs: up to MaxComments comments without      *)
(* reactions, ids in input order, each one of ReplyKinds and created at    *)
(* the start, 7 days later or 8 days later.  u_octo (type Bot, plain       *)
(* login) writes the reviewed note; u_ci has type User and a bot login.    *)
(***************************************************************************)
r_note == <<"C", "o", "n", "s", "i", "d", "e", "r", " ", "r", "e", "n", "a", "m", "i", "n", "g">>
r_thanks == <<"T", "h", "a", "n", "k", "s", "!">>
r_mention == <<"@", "O", "C", "T", "O", " ", "s", "e", "e">>

MaxComments == 3

ReplyKinds ==
    {[author |-> u_octo,  body |-> r_note,    inReplyToId |-> NoId],
     [author |-> u_alice, body |-> r_thanks,  inReplyToId |-> NoId],
     [author |-> u_alice, body |-> r_mention, inReplyToId |-> NoId],
     [author |-> u_alice, body |-> r_note,    inReplyToId |-> 1],
     [author |-> u_ci,    body |-> r_thanks,  inReplyToId |-> 1],
     [author |-> u_octo,  body |-> r_thanks,  inReplyToId |-> 1]}

ReplyTimes == {1000, 1000 + maxReplyWindow, 1000 + 691200000}

ReplyComments(id) ==
    {NewComment(id, k.body, k.author, t, t, k.inReplyToId, <<>>) :
        k \in ReplyKinds, t \in ReplyTimes}

LoadReply ==
    /\ op = "load"
    /\ Len(comments) < MaxComments
    /\ \E c \in ReplyComments(Len(comments) + 1) : comments' = Append(comments, c)
    /\ UNCHANGED <<ret, op, raw, norm, prs, arg, cliVars>>

DetectReplies ==
    /\ op = "load"
    /\ ret' = detectReplies(comments)
    /\ op' = "detectReplies"
    /\ UNCHANGED <<comments, raw, norm, prs, arg, cliVars>>

NextReplies == LoadReply \/ DetectReplies

SpecReplies == InitProcessor /\ [][NextReplies]_vars

(***************************************************************************)
(* C3. Reaction-kind normalization is total and closed: for every raw      *)
(* string the result is a member of the enumeration, and a string that is  *)
(* neither a kind nor an alias (after folding and stripping) is unknown.   *)
(***************************************************************************)
IsRecognized(s) ==
    stripNonLetters(s) \in validTypes \cup DOMAIN aliases

C3_NormalizeClosed ==
    norm # NotCalled =>
        /\ norm \in ReactionTypes
        /\ ~IsRecognized(raw) => norm = unknown

(***************************************************************************)
(* C4. The alias table: "+1", "plusone", "PlusOne" give thumbs_up, "-1"    *)
(* gives thumbs_down, "tada", "party", "celebrate" give hooray, and a kind *)
(* written in any letter case gives that kind.                             *)
(***************************************************************************)
C4_AliasTable ==
    norm # NotCalled =>
        /\ raw \in {k_plus1, k_plusone, raw_PlusOne} => norm = thumbs_up
        /\ raw = k_minus1 => norm = thumbs_down
        /\ raw \in {k_tada, k_party, k_celebrate} => norm = hooray
        /\ toLowerCase(raw) \in ReactionTypes => norm = toLowerCase(raw)

(***************************************************************************)
(* C1. detectResolution marks a comment resolved if and only if (a) its    *)
(* lower-cased body contains an explicit marker, or (b) it carries at      *)
(* least 2 reactions of a positive kind, or (c) updatedAt > createdAt and  *)
(* its lower-cased body contains a resolution keyword.  One thumbs_up, no  *)
(* marker and updatedAt = createdAt is not resolved; two thumbs_up is.     *)
(***************************************************************************)
PositiveKinds == {thumbs_up, heart, hooray, rocket}

CountPositive(reactions) ==
    Cardinality({k \in DOMAIN reactions : reactions[k].type \in PositiveKinds})

HasMarker(c) ==
    \E m \in {m_resolved, m_fixed, m_done, m_completed, m_check, m_box} :
        includes(toLowerCase(c.body), m)

HasKeyword(c) ==
    \E w \in {w_resolved, w_fixed, w_done, w_completed, w_addressed,
              w_implemented, w_updated} : includes(toLowerCase(c.body), w)

WasEdited(c) == c.updatedAt # NoDate /\ c.updatedAt > c.createdAt

C1_ResolutionRule ==
    op = "detectResolution" =>
        \A i \in DOMAIN comments :
            LET c == comments[i]
            IN  /\ ret[i].isResolved <=>
                       \/ HasMarker(c)
                       \/ CountPositive(c.reactions) >= 2
                       \/ WasEdited(c) /\ HasKeyword(c)
                /\ ( /\ c.reactions = <<[type |-> thumbs_up, user |-> u_alice,
                                         createdAt |-> 2000, synthetic |-> FALSE]>>
                     /\ ~HasMarker(c)
                     /\ c.updatedAt = c.createdAt ) => ~ret[i].isResolved
                /\ ( /\ Len(c.reactions) = 2
                     /\ \A k \in 1..2 : c.reactions[k].type = thumbs_up )
                       => ret[i].isResolved

\* One thumbs_up and no other signal: not resolved.
C1_Witness ==
    /\ op = "detectResolution"
    /\ Len(comments) = 1
    /\ Len(comments[1].reactions) = 1
    /\ comments[1].reactions[1].type = thumbs_up
    /\ comments[1].body = b_keyword
    /\ comments[1].updatedAt = comments[1].createdAt
    /\ ~ret[1].isResolved

(***************************************************************************)
(* C2. After the analyze pipeline, a comment whose reaction list           *)
(* (normalized, with the synthetic reaction) holds at least 2 positive     *)
(* kinds is marked resolved.                                               *)
(***************************************************************************)
C2_ResolvedByProcessedReactions ==
    op = "analyze" =>
        \A i \in DOMAIN ret :
            CountPositive(ret[i].reactions) >= 2 => ret[i].isResolved

(***************************************************************************)
(* C5. classifyReactions appends the synthetic reaction: a comment whose   *)
(* body matches "(addressed|fixed|resolved|updated) in commit <6-40 hex>"  *)
(* keeps its reactions (normalized, same order, same count) followed by    *)
(* one thumbs_up of the comment's author, dated updatedAt (createdAt when  *)
(* updatedAt is absent), synthetic; any other comment keeps its reaction   *)
(* count and gains no synthetic reaction.                                  *)
(***************************************************************************)
IsHex(c) == c \in Digits \cup {"a", "b", "c", "d", "e", "f", "A", "B", "C", "D", "E", "F"}

\* The body holds one of the four words, " in commit " and six hex characters.
MatchesCommitMessage(body) ==
    \E w \in {w_addressed, w_fixed, w_resolved, w_updated} :
        \E i \in 1..Len(body) :
            LET n == Len(w) + Len(w_in_commit)
            IN  /\ i + n + 5 <= Len(body)
                /\ toLowerCase(SubSeq(body, i, i + n - 1)) = w \o w_in_commit
                /\ \A k \in (i + n)..(i + n + 5) : IsHex(body[k])

C5_SyntheticAppended ==
    op = "classifyReactions" =>
        \A i \in DOMAIN comments :
            LET c == comments[i]
                n == Len(c.reactions)
                r == ret[i].reactions
            IN  /\ Len(r) >= n
                /\ \A k \in 1..n :
                       /\ r[k].type = normalizeReactionType(c.reactions[k].type)
                       /\ r[k].user = c.reactions[k].user
                       /\ r[k].createdAt = c.reactions[k].createdAt
                       /\ r[k].synthetic = c.reactions[k].synthetic
                /\ IF MatchesCommitMessage(c.body)
                   THEN /\ Len(r) = n + 1
                        /\ r[n + 1].type = thumbs_up
                        /\ r[n + 1].user = c.author
                        /\ r[n + 1].createdAt =
                               (IF c.updatedAt = NoDate THEN c.createdAt ELSE c.updatedAt)
                        /\ r[n + 1].synthetic = TRUE
                   ELSE /\ Len(r) = n
                        /\ \A k \in 1..n : ~r[k].synthetic

\* A commit message on a comment that already has two reactions.
C5_Witness ==
    /\ op = "classifyReactions"
    /\ Len(comments) = 1
    /\ comments[1].body = b_commit_upper
    /\ comments[1].updatedAt = NoDate
    /\ Len(comments[1].reactions) = 2
    /\ comments[1].reactions[1].type = raw_PlusOne
    /\ Len(ret[1].reactions) = 3
    /\ ret[1].reactions[3].synthetic

(***************************************************************************)
(* Reading a detectReplies result.                                         *)
(***************************************************************************)
\* The login ends in "bot", contains "[bot]" or starts with a known prefix.
LoginLooksBot(login) ==
    LET l == toLowerCase(login)
        n == Len(l)
    IN  \/ n >= 3 /\ SubSeq(l, n - 2, n) = p_bot
        \/ includes(l, p_bracket_bot)
        \/ \E p \in {p_dependabot, p_renovate, p_github_actions, p_codecov,
                     p_sonarcloud, p_coderabbit} :
               Len(p) <= n /\ SubSeq(l, 1, Len(p)) = p

IsBotAuthor(user) == user.type = "Bot" \/ LoginLooksBot(user.login)

\* Comment c is one of the replies attached to the i-th returned comment.
Attached(c, i) == \E k \in DOMAIN ret[i].replies : ret[i].replies[k].id = c.id

\* Some human wrote a comment whose inReplyToId is the id of comments[i].
HasExplicitHumanReply(i) ==
    \E j \in DOMAIN comments :
        /\ comments[j].inReplyToId = comments[i].id
        /\ ~IsBotAuthor(comments[j].author)

(***************************************************************************)
(* C6. Explicit reply linking: a comment B with B.inReplyToId = A.id is in *)
(* A.replies when B's author is human and is not when B's author is a bot. *)
(***************************************************************************)
C6_ExplicitReplyLinked ==
    op = "detectReplies" =>
        \A i, j \in DOMAIN comments :
            comments[j].inReplyToId = comments[i].id =>
                (Attached(comments[j], i) <=> ~IsBotAuthor(comments[j].author))

\* A has an explicit reply by a human and one by a bot.
C6_Witness ==
    /\ op = "detectReplies"
    /\ Len(comments) = 3
    /\ comments[2].inReplyToId = 1 /\ comments[2].author = u_octo
    /\ comments[3].inReplyToId = 1 /\ comments[3].author = u_alice
    /\ Len(ret[1].replies) = 1
    /\ ret[1].replies[1].id = 3

(***************************************************************************)
(* C7. Replies are human-only on both paths: no attached reply has an      *)
(* author of type Bot or with a login matching a bot pattern.              *)
(***************************************************************************)
C7_RepliesHumanOnly ==
    op = "detectReplies" =>
        \A i \in DOMAIN ret :
            \A k \in DOMAIN ret[i].replies :
                ~IsBotAuthor(ret[i].replies[k].author)

\* The fallback attaches a human while a bot-login comment with the same
\* body and time, and an explicit reply of a Bot account, are left out.
C7_Witness ==
    /\ op = "detectReplies"
    /\ Len(comments) = 3
    /\ comments[1].author = u_octo
    /\ \E j, m \in 2..3 :
          /\ comments[j].author = u_ci /\ comments[j].body = r_thanks
          /\ comments[j].createdAt = comments[1].createdAt + maxReplyWindow
          /\ comments[m].author = u_alice /\ comments[m].inReplyToId = NoId
          /\ comments[m].createdAt = comments[j].createdAt
          /\ Attached(comments[m], 1)
    /\ Len(ret[1].replies) = 1

SevenDays == 604800000

MentionsOrIndicates(c, a) ==
    LET body == toLowerCase(c.body)
    IN  \/ includes(body, <<"@">> \o toLowerCase(a.author.login))
        \/ \E w \in replyIndicators : includes(body, w)

HeuristicConditions(c, a) ==
    /\ c.id # a.id
    /\ 0 < c.createdAt - a.createdAt
    /\ c.createdAt - a.createdAt <= SevenDays
    /\ ~IsBotAuthor(c.author)
    /\ MentionsOrIndicates(c, a)

C9_HeuristicConditions ==
    op = "detectReplies" =>
        \A i \in DOMAIN comments :
            ~HasExplicitHumanReply(i) =>
                \A j \in DOMAIN comments :
                    Attached(comments[j], i) <=>
                        HeuristicConditions(comments[j], comments[i])

\* A mention exactly 7 days later is attached; an indicator 8 days later is not.
C9_Witness ==
    /\ op = "detectReplies"
    /\ Len(comments) = 3
    /\ comments[1].author = u_octo
    /\ comments[2].body = r_mention
    /\ comments[2].createdAt - comments[1].createdAt = SevenDays
    /\ comments[3].body = r_thanks /\ comments[3].author = u_alice
    /\ comments[3].inReplyToId = NoId
    /\ comments[3].createdAt - comments[1].createdAt = 691200000
    /\ Attached(comments[2], 1)
    /\ ~Attached(comments[3], 1)

(***************************************************************************)
(* C10. Replies are in non-decreasing order of createdAt, and replies with *)
(* equal createdAt keep their relative order of the input sequence.        *)
(***************************************************************************)
InputIndex(c) == CHOOSE j \in DOMAIN comments : comments[j].id = c.id

C10_RepliesOrdered ==
    op = "detectReplies" =>
        \A i \in DOMAIN ret :
            LET r == ret[i].replies
            IN  \A k, m \in DOMAIN r :
                    k < m =>
                        /\ r[k].createdAt <= r[m].createdAt
                        /\ r[k].createdAt = r[m].createdAt =>
                               InputIndex(r[k]) < InputIndex(r[m])

\* Two replies given latest first come out earliest first.
C10_Witness ==
    /\ op = "detectReplies"
    /\ Len(comments) = 3
    /\ Len(ret[1].replies) = 2
    /\ ret[1].replies[1].id = 3
    /\ ret[1].replies[2].id = 2
    /\ ret[1].replies[1].createdAt < ret[1].replies[2].createdAt

(***************************************************************************)
(* The stage runs: a batch of up to MaxComments comments that carry        *)
(* reactions and reply links together, handed to one stage at a time.      *)
(***************************************************************************)
StageKinds ==
    {[author |-> u_rabbit, body |-> b_commit, inReplyToId |-> NoId,
      reactions |-> <<[type |-> heart, user |-> u_alice, createdAt |-> 2000, synthetic |-> FALSE]>>],
     [author |-> u_octo, body |-> b_marker_fixed, inReplyToId |-> NoId,
      reactions |-> <<[type |-> raw_PlusOne, user |-> u_alice, createdAt |-> 2000, synthetic |-> FALSE],
                      [type |-> thumbs_up, user |-> u_alice, createdAt |-> 2000, synthetic |-> FALSE]>>],
     [author |-> u_alice, body |-> r_thanks, inReplyToId |-> 1, reactions |-> <<>>],
     [author |-> u_alice, body |-> r_mention, inReplyToId |-> NoId, reactions |-> <<>>],
     [author |-> u_ci, body |-> b_plain, inReplyToId |-> 1, reactions |-> <<>>]}

StageComments(id) ==
    {NewComment(id, k.body, k.author, t, IF t = 1000 THEN NoDate ELSE 2001,
                k.inReplyToId, k.reactions) :
        k \in StageKinds, t \in {1000, 2000}}

LoadStage ==
    /\ op = "load"
    /\ Len(comments) < MaxComments
    /\ \E c \in StageComments(Len(comments) + 1) : comments' = Append(comments, c)
    /\ UNCHANGED <<ret, op, raw, norm, prs, arg, cliVars>>

NextStages == LoadStage \/ DetectResolution \/ ClassifyReactions \/ DetectReplies

SpecStages == InitProcessor /\ [][NextStages]_vars

(***************************************************************************)
(* C11: each of detectResolution, classifyReactions and detectReplies      *)
(* leaves the batch it was given as it was, returns as many comments as it *)
(* was given with the ids in the same order, and every returned comment    *)
(* equals its input comment in every field but the stage's own one         *)
(* (isResolved, reactions, replies).                                       *)
(***************************************************************************)
StageField ==
    [detectResolution |-> "isResolved", classifyReactions |-> "reactions",
     detectReplies |-> "replies"]

SameButField(cs, out, field) ==
    /\ Len(out) = Len(cs)
    /\ \A i \in DOMAIN cs :
        /\ out[i].id = cs[i].id
        /\ out[i] = [cs[i] EXCEPT ![field] = out[i][field]]

C11_CopyOnWrite ==
    [][op' \in DOMAIN StageField =>
        /\ comments' = comments
        /\ SameButField(comments, ret', StageField[op'])]_vars

\* detectReplies has attached a reply to a comment that also carries reactions.
C11_Witness ==
    /\ op = "detectReplies"
    /\ \E i \in DOMAIN ret :
        /\ Len(ret[i].replies) > 0
        /\ Len(ret[i].reactions) > 0
        /\ ret[i].replies # comments[i].replies

(***************************************************************************)
(* The filters.  The first argument of a filter is a list or is missing    *)
(* (null or undefined); a date is its number of milliseconds.              *)
(***************************************************************************)
Given(list) == [given |-> TRUE, items |-> list]
Missing == [given |-> FALSE, items |-> <<>>]

filterByTimeRangeExclusive(input, period) ==
    IF ~input.given \/ Len(input.items) = 0 THEN <<>>
    ELSE SelectSeq(input.items,
                   LAMBDA pr : pr.createdAt > period.start /\ pr.createdAt < period.end)

filterByTimeRange(input, period) ==
    IF ~input.given \/ Len(input.items) = 0 THEN <<>>
    ELSE SelectSeq(input.items,
                   LAMBDA pr : pr.createdAt >= period.start /\ pr.createdAt <= period.end)

\* String.prototype.trim: white space is removed from both ends.
WhiteSpace == {" ", "\t", "\n"}

RECURSIVE trimStart(_)
trimStart(s) ==
    IF Len(s) > 0 /\ s[1] \in WhiteSpace THEN trimStart(Tail(s)) ELSE s

RECURSIVE trimEnd(_)
trimEnd(s) ==
    IF Len(s) > 0 /\ s[Len(s)] \in WhiteSpace THEN trimEnd(SubSeq(s, 1, Len(s) - 1)) ELSE s

trim(s) == trimEnd(trimStart(s))

filterByReviewerUntrimmed(input, userName) ==
    IF ~input.given \/ Len(input.items) = 0 \/ Len(userName) = 0 THEN <<>>
    ELSE SelectSeq(input.items,
                   LAMBDA comment :
                       toLowerCase(comment.author.login) = toLowerCase(userName))

filterByReviewer(input, userName) ==
    IF ~input.given \/ Len(input.items) = 0 \/ Len(userName) = 0 THEN <<>>
    ELSE SelectSeq(input.items,
                   LAMBDA comment :
                       trim(toLowerCase(comment.author.login)) = trim(toLowerCase(userName)))

(***************************************************************************)
(* The filter runs: up to MaxPRs pull requests created on one of four      *)
(* dates and a period over the same dates, or up to MaxComments comments   *)
(* whose author logins differ in case and surrounding white space and a    *)
(* reviewer name.                                                          *)
(***************************************************************************)
MaxPRs == 3

Dates == {1000, 2000, 3000, 4000}

Periods == {[start |-> a, end |-> b] : a \in {2000, 3000}, b \in {2000, 3000}}

PullRequests(number) == {[number |-> number, createdAt |-> t] : t \in Dates}

n_alice_padded == <<" ", "A", "l", "i", "c", "e", "\t">>
n_alice_upper == <<"A", "L", "I", "C", "E">>
n_alice_inner == <<"a", "l", " ", "i", "c", "e">>
n_blank == <<" ", " ">>
n_bob == <<"b", "o", "b">>

AuthorLogins == {l_alice, n_alice_padded, n_alice_upper, n_alice_inner, n_blank}

ReviewerNames == {<<>>, l_alice, n_alice_padded, n_alice_upper, n_alice_inner, n_blank, n_bob}

AuthoredComments(id) ==
    {NewComment(id, r_note, [login |-> l, type |-> "Bot"], 1000, 1000, NoId, <<>>) :
        l \in AuthorLogins}

LoadPullRequest ==
    /\ op = "load"
    /\ Len(comments) = 0
    /\ Len(prs) < MaxPRs
    /\ \E pr \in PullRequests(Len(prs) + 1) : prs' = Append(prs, pr)
    /\ UNCHANGED <<comments, ret, op, raw, norm, arg, cliVars>>

LoadAuthored ==
    /\ op = "load"
    /\ Len(prs) = 0
    /\ Len(comments) < MaxComments
    /\ \E c \in AuthoredComments(Len(comments) + 1) : comments' = Append(comments, c)
    /\ UNCHANGED <<prs, ret, op, raw, norm, arg, cliVars>>

\* filterByTimeRange(prs, period), or filterByTimeRange(undefined, period).
FilterByTimeRange ==
    /\ op = "load"
    /\ Len(comments) = 0
    /\ \E input \in {Given(prs)} \cup (IF Len(prs) = 0 THEN {Missing} ELSE {}),
          period \in Periods :
        /\ arg' = [input |-> input, period |-> period]
        /\ ret' = filterByTimeRange(input, period)
    /\ op' = "filterByTimeRange"
    /\ UNCHANGED <<comments, prs, raw, norm, cliVars>>

\* filterByReviewer(comments, userName), or filterByReviewer(undefined, userName).
FilterByReviewer ==
    /\ op = "load"
    /\ Len(prs) = 0
    /\ \E input \in {Given(comments)} \cup (IF Len(comments) = 0 THEN {Missing} ELSE {}),
          userName \in ReviewerNames :
        /\ arg' = [input |-> input, userName |-> userName]
        /\ ret' = filterByReviewer(input, userName)
    /\ op' = "filterByReviewer"
    /\ UNCHANGED <<comments, prs, raw, norm, cliVars>>

\* The guard `!comments` of the three stages: a call without a list returns
\* [] before the list is touched; without the guard, map on undefined throws.
TypeError == <<[thrown |-> "TypeError"]>>

stageOfUnguarded(input, result) == IF ~input.given THEN TypeError ELSE result

stageOf(input, result) == IF ~input.given THEN <<>> ELSE result

\* detectResolution(comments), or detectResolution(undefined); likewise the
\* other two stages.
DetectResolutionOf ==
    /\ op = "load"
    /\ Len(prs) = 0
    /\ \E input \in {Given(comments)} \cup (IF Len(comments) = 0 THEN {Missing} ELSE {}) :
        /\ arg' = [input |-> input]
        /\ ret' = stageOf(input, detectResolution(input.items))
    /\ op' = "detectResolution"
    /\ UNCHANGED <<comments, prs, raw, norm, cliVars>>

ClassifyReactionsOf ==
    /\ op = "load"
    /\ Len(prs) = 0
    /\ \E input \in {Given(comments)} \cup (IF Len(comments) = 0 THEN {Missing} ELSE {}) :
        /\ arg' = [input |-> input]
        /\ ret' = stageOf(input, classifyReactions(input.items))
    /\ op' = "classifyReactions"
    /\ UNCHANGED <<comments, prs, raw, norm, cliVars>>

DetectRepliesOf ==
    /\ op = "load"
    /\ Len(prs) = 0
    /\ \E input \in {Given(comments)} \cup (IF Len(comments) = 0 THEN {Missing} ELSE {}) :
        /\ arg' = [input |-> input]
        /\ ret' = stageOf(input, detectReplies(input.items))
    /\ op' = "detectReplies"
    /\ UNCHANGED <<comments, prs, raw, norm, cliVars>>

NextFilters ==
    \/ LoadPullRequest \/ LoadAuthored \/ FilterByTimeRange \/ FilterByReviewer
    \/ DetectResolutionOf \/ ClassifyReactionsOf \/ DetectRepliesOf

SpecFilters == InitProcessor /\ [][NextFilters]_vars

(***************************************************************************)
(* C13: filterByTimeRange returns exactly the pull requests created at or  *)
(* after period.start and at or before period.end, in input order; pull    *)
(* requests created exactly at a boundary are kept; an empty or missing    *)
(* input gives the empty list.                                             *)
(***************************************************************************)
\* out lists the items of list at the positions in keep, in increasing order.
ListsInOrder(out, list, keep) ==
    /\ Len(out) = Cardinality(keep)
    /\ \A i \in keep : out[Cardinality({j \in keep : j <= i})] = list[i]

InPeriod(pr, period) == period.start <= pr.createdAt /\ pr.createdAt <= period.end

C13_TimeRange ==
    op = "filterByTimeRange" =>
        /\ ListsInOrder(ret, arg.input.items,
                        {i \in DOMAIN arg.input.items : InPeriod(arg.input.items[i], arg.period)})
        /\ (~arg.input.given \/ arg.input.items = <<>>) => ret = <<>>

\* A pull request at each boundary is kept and another pull request is dropped.
C13_Witness ==
    /\ op = "filterByTimeRange"
    /\ arg.period.start < arg.period.end
    /\ Len(ret) < Len(prs)
    /\ \E i, j \in DOMAIN ret :
        /\ i < j
        /\ ret[i].createdAt = arg.period.end
        /\ ret[j].createdAt = arg.period.start

(***************************************************************************)
(* C14: filterByReviewer returns exactly the comments, in input order,     *)
(* whose author login equals the reviewer name once both are lower-cased   *)
(* and stripped of surrounding white space; an empty reviewer name gives   *)
(* the empty list.                                                         *)
(***************************************************************************)
\* The strings s without some leading and trailing white space, down to a
\* core that neither starts nor ends with white space.
Cores(s) ==
    {SubSeq(s, i, j) : <<i, j>> \in
        {p \in (1..Len(s) + 1) \X (0..Len(s)) :
            /\ p[1] <= p[2] + 1
            /\ \A k \in 1..(p[1] - 1) : s[k] \in WhiteSpace
            /\ \A k \in (p[2] + 1)..Len(s) : s[k] \in WhiteSpace
            /\ p[1] <= p[2] => (s[p[1]] \notin WhiteSpace /\ s[p[2]] \notin WhiteSpace)}}

SameReviewer(login, userName) ==
    Cores(toLowerCase(login)) \cap Cores(toLowerCase(userName)) # {}

C14_Reviewer ==
    op = "filterByReviewer" =>
        IF arg.userName = <<>> THEN ret = <<>>
        ELSE ListsInOrder(ret, arg.input.items,
                          {i \in DOMAIN arg.input.items :
                              SameReviewer(arg.input.items[i].author.login, arg.userName)})

\* Logins that differ from the reviewer name in case and padding are kept,
\* another login between them is dropped.
C14_Witness ==
    /\ op = "filterByReviewer"
    /\ Len(ret) = 2
    /\ Len(comments) = 3
    /\ ret[1].author.login # arg.userName
    /\ ret[2].author.login # ret[1].author.login
    /\ ret[1].id = 1
    /\ ret[2].id = 3

(***************************************************************************)
(* The command line (src/src/cli.ts).  A command runs through its handler  *)
(* one statement group at a time; io records the lines printed with        *)
(* console.error (stderr) and console.log (stdout), the calls completed,   *)
(* the exit code, and the files left on disk.  A rejected await is caught  *)
(* by the handler's catch block.                                           *)
(***************************************************************************)
Log(o, line) == [o EXCEPT !.stdout = Append(@, line)]
Error(o, line) == [o EXCEPT !.stderr = Append(@, line)]
Called(o, name) == [o EXCEPT !.calls = Append(@, name)]
\* process.exit(1)
Exit1(o) == [o EXCEPT !.exit = 1]
\* catch (error) { console.error('Error:', message); process.exit(1); }
Catch(o) == Exit1(Error(o, "Error: <message>"))

\* The summary of the metrics calculator.  A percentage is held in tenths of a
\* percent and the average in hundredths, each rounded to the nearest unit;
\* a ratio with denominator 0 is 0.
RoundedRatio(n, d, scale) == IF d = 0 THEN 0 ELSE (2 * scale * n + d) \div (2 * d)

RoundedPercentOrFull(n, d) == IF d = 0 THEN 1000 ELSE RoundedRatio(n, d, 1000)

RoundedPercent(n, d) == RoundedRatio(n, d, 1000)

CountResolved(cs) == Cardinality({i \in DOMAIN cs : cs[i].isResolved})

CountReplied(cs) == Cardinality({i \in DOMAIN cs : Len(cs[i].replies) > 0})

CountReactions(cs, kinds) ==
    Cardinality({p \in UNION {{<<i, k>> : k \in DOMAIN cs[i].reactions} : i \in DOMAIN cs} :
                    cs[p[1]].reactions[p[2]].type \in kinds})

calculateSummary(pullRequests, processedComments) ==
    LET positive == CountReactions(processedComments, {thumbs_up, heart, hooray, rocket})
        negative == CountReactions(processedComments, {thumbs_down, confused})
    IN  [totalPRs |-> Len(pullRequests),
         totalComments |-> Len(processedComments),
         averageCommentsPerPr |-> RoundedRatio(Len(processedComments), Len(pullRequests), 100),
         resolvedComments |-> CountResolved(processedComments),
         resolvedPercentage |-> RoundedPercent(CountResolved(processedComments),
                                               Len(processedComments)),
         repliedComments |-> CountReplied(processedComments),
         repliedPercentage |-> RoundedPercent(CountReplied(processedComments),
                                              Len(processedComments)),
         positiveReactions |-> positive,
         negativeReactions |-> negative,
         positivePercentage |-> RoundedPercent(positive, positive + negative),
         negativePercentage |-> RoundedPercent(negative, positive + negative)]

f_json == <<"j", "s", "o", "n">>
f_markdown == <<"m", "a", "r", "k", "d", "o", "w", "n">>
f_JSON == <<"J", "S", "O", "N">>
f_Markdown == <<"M", "a", "r", "k", "d", "o", "w", "n">>
f_xml == <<"x", "m", "l">>

supportedFormats == {f_json, f_markdown}

ReportOptions == {f_json, f_JSON, f_Markdown, f_xml, <<>>}

\* The data file: up to MaxPRs pull requests and up to MaxComments comments,
\* each marked [Fixed], carrying two thumbs_up, carrying one, or without signal.
thumbsUpReaction == [type |-> thumbs_up, user |-> u_alice, createdAt |-> 2000, synthetic |-> FALSE]

DataKinds ==
    {[body |-> b_marker_fixed, reactions |-> <<>>],
     [body |-> b_plain, reactions |-> <<thumbsUpReaction, thumbsUpReaction>>],
     [body |-> b_plain, reactions |-> <<thumbsUpReaction>>],
     [body |-> b_plain, reactions |-> <<>>]}

DataComments ==
    UNION {[1..n -> DataKinds] : n \in 0..MaxComments}

DataFiles ==
    {[prs |-> [i \in 1..n |-> [number |-> i, createdAt |-> 1000]],
      comments |-> [i \in DOMAIN ks |->
                       NewComment(i, ks[i].body, u_rabbit, 1000, 1000, NoId, ks[i].reactions)]] :
        n \in 0..MaxPRs, ks \in DataComments}

\* The most validation errors a data file is reported with.
MaxErrors == 2

\* analyze --report <format>
StartAnalyze ==
    /\ pc = "idle"
    /\ \E f \in ReportOptions : cmd' = [name |-> "analyze", report |-> f]
    /\ io' = Log(io, "Analyzing PR metrics...")
    /\ pc' = "fileExists"
    /\ UNCHANGED <<comments, ret, op, raw, norm, prs, arg, summary, client>>

AnalyzeFileExists ==
    /\ pc = "fileExists"
    /\ \E exists \in BOOLEAN :
        IF exists
        THEN /\ io' = Called(io, "fileExists")
             /\ pc' = "validateDataFile"
        ELSE /\ io' = Exit1(Log(Error(io, "Input file not found: <input>"),
                                "Run \"collect\" command first to gather data"))
             /\ pc' = "exited"
    /\ UNCHANGED <<comments, ret, op, raw, norm, prs, arg, cmd, summary, client>>

\* validateDataFile answers with isValid, or with one to MaxErrors errors.
AnalyzeValidate ==
    /\ pc = "validateDataFile"
    /\ \E errors \in 0..MaxErrors :
        IF errors = 0
        THEN /\ io' = Called(io, "validateDataFile")
             /\ pc' = "loadCollectedData"
        ELSE /\ io' = Exit1([io EXCEPT !.stderr =
                                @ \o <<"Invalid data file format:">>
                                  \o [i \in 1..errors |-> "   - <error>"]])
             /\ pc' = "exited"
    /\ UNCHANGED <<comments, ret, op, raw, norm, prs, arg, cmd, summary, client>>

\* loadCollectedData, then the early return on an empty comment list.
AnalyzeLoad ==
    /\ pc = "loadCollectedData"
    /\ \/ \E data \in DataFiles :
            /\ prs' = data.prs
            /\ comments' = data.comments
            /\ IF Len(data.comments) = 0
               THEN /\ io' = Log(Log(Called(io, "loadCollectedData"), "Loaded"),
                                 "No comments found from reviewer")
                    /\ pc' = "done"
               ELSE /\ io' = Log(Called(io, "loadCollectedData"), "Loaded")
                    /\ pc' = "processComments"
       \/ /\ io' = Catch(io)
          /\ pc' = "exited"
          /\ UNCHANGED <<prs, comments>>
    /\ UNCHANGED <<ret, op, raw, norm, arg, cmd, summary, client>>

AnalyzeProcess ==
    /\ pc = "processComments"
    /\ ret' = processComments(comments)
    /\ io' = Called(Log(io, "Processing metrics..."), "processComments")
    /\ pc' = "calculateSummary"
    /\ UNCHANGED <<comments, op, raw, norm, prs, arg, cmd, summary, client>>

AnalyzeCalculate ==
    /\ pc = "calculateSummary"
    /\ summary' = calculateSummary(prs, ret)
    /\ io' = Called(io, "calculateSummary")
    /\ pc' = "format"
    /\ UNCHANGED <<comments, ret, op, raw, norm, prs, arg, cmd, client>>

AnalyzeFormat ==
    /\ pc = "format"
    /\ IF toLowerCase(cmd.report) \in supportedFormats
       THEN /\ io' = Called(io, "format")
            /\ pc' = "generateReport"
       ELSE /\ io' = Exit1(Error(io, "Invalid report format. Supported formats: json, markdown"))
            /\ pc' = "exited"
    /\ UNCHANGED <<comments, ret, op, raw, norm, prs, arg, cmd, summary, client>>

AnalyzeGenerate ==
    /\ pc = "generateReport"
    /\ \/ /\ io' = Called(Log(io, "Generating report..."), "generateReport")
          /\ pc' = "writeFile"
       \/ /\ io' = Catch(Log(io, "Generating report..."))
          /\ pc' = "exited"
    /\ UNCHANGED <<comments, ret, op, raw, norm, prs, arg, cmd, summary, client>>

\* fs.writeFile creates or truncates the file and then writes the content: it
\* completes, or it is rejected before the file is created, or it is rejected
\* after the file was created and before all of the content is in it.
AnalyzeWrite ==
    /\ pc = "writeFile"
    /\ \/ /\ io' = Log(Called([io EXCEPT !.report = "written"], "writeFile"),
                       "Report saved to: <outputPath>")
          /\ pc' = "done"
       \/ /\ io' = Catch(io)
          /\ pc' = "exited"
       \/ /\ io' = Catch([io EXCEPT !.report = "partial"])
          /\ pc' = "exited"
    /\ UNCHANGED <<comments, ret, op, raw, norm, prs, arg, cmd, summary, client>>

\* The config command, as registered in src/src/cli.ts or in the CLI entry
\* point (cli/index.ts).
StartConfig ==
    /\ pc = "idle"
    /\ \E entry \in {"src/cli.ts", "cli/index.ts"} : cmd' = [name |-> "config", entry |-> entry]
    /\ pc' = "loadConfig"
    /\ UNCHANGED <<comments, ret, op, raw, norm, prs, arg, io, summary, client>>

\* The config command of src/src/cli.ts: its catch block prints nothing.
ShowConfig ==
    /\ pc = "loadConfig"
    /\ cmd.name = "config"
    /\ cmd.entry = "src/cli.ts"
    /\ \/ /\ io' = [Called(io, "loadConfig") EXCEPT !.stdout =
                       @ \o <<"Configuration:", "Repository: <owner>/<repo>",
                              "Reviewer: <reviewer>", "Period: <start> to <end>">>]
          /\ pc' = "done"
       \/ /\ io' = Exit1(io)
          /\ pc' = "exited"
    /\ UNCHANGED <<comments, ret, op, raw, norm, prs, arg, cmd, summary, client>>

\* The config command of the CLI entry point (cli/index.ts): its catch block
\* prints the error.
ShowConfigIndex ==
    /\ pc = "loadConfig"
    /\ cmd.name = "config"
    /\ cmd.entry = "cli/index.ts"
    /\ \/ /\ io' = [Called(io, "loadConfig") EXCEPT !.stdout =
                       @ \o <<"Configuration:", "Repository: <owner>/<repo>",
                              "Reviewer: <reviewer>", "Period: <start> to <end>">>]
          /\ pc' = "done"
       \/ /\ io' = Catch(io)
          /\ pc' = "exited"
    /\ UNCHANGED <<comments, ret, op, raw, norm, prs, arg, cmd, summary, client>>

\* String.prototype.split(separator), for a one-character separator.
RECURSIVE splitFrom(_, _, _, _)
splitFrom(s, sep, current, parts) ==
    IF Len(s) = 0 THEN Append(parts, current)
    ELSE IF s[1] = sep THEN splitFrom(Tail(s), sep, <<>>, Append(parts, current))
    ELSE splitFrom(Tail(s), sep, Append(current, s[1]), parts)

split(s, sep) == splitFrom(s, sep, <<>>, <<>>)

\* The element of a destructured array, undefined past its end; undefined and
\* the empty string are both falsy.
Truthy(s) == Len(s) > 0
ElementOrUndefined(parts, i) == IF i <= Len(parts) THEN parts[i] ELSE <<>>

\* parseInt(string): leading white space and one sign are skipped, the longest
\* prefix of decimal digits is the value, NaN when there is no digit.
DigitValue ==
    [c \in Digits |-> CASE c = "0" -> 0 [] c = "1" -> 1 [] c = "2" -> 2 [] c = "3" -> 3
                        [] c = "4" -> 4 [] c = "5" -> 5 [] c = "6" -> 6 [] c = "7" -> 7
                        [] c = "8" -> 8 [] c = "9" -> 9]

RECURSIVE digitsValue(_, _)
digitsValue(s, acc) ==
    IF Len(s) > 0 /\ s[1] \in Digits
    THEN digitsValue(Tail(s), 10 * acc + DigitValue[s[1]])
    ELSE acc

parseInt(string) ==
    LET t == trimStart(string)
        negative == Len(t) > 0 /\ t[1] = "-"
        u == IF Len(t) > 0 /\ t[1] \in {"+", "-"} THEN Tail(t) ELSE t
    IN  IF Len(u) = 0 \/ u[1] \notin Digits THEN [nan |-> TRUE, value |-> 0]
        ELSE [nan |-> FALSE,
              value |-> IF negative THEN 0 - digitsValue(u, 0) ELSE digitsValue(u, 0)]

\* The options of collect: --repo is undefined unless given, --days has the
\* default '7'.
o_own_rep == <<"o", "/", "r">>
o_three_parts == <<"a", "/", "b", "/", "c">>
o_no_owner == <<"/", "r">>
o_no_repo == <<"o", "/">>
o_no_slash == <<"o">>
o_two_slashes == <<"o", "/", "/", "r">>
d_seven == <<"7">>
d_zero == <<"0">>
d_negative == <<"-", "3">>
d_word == <<"a", "b", "c">>
d_seven_word == <<"7", "a", "b", "c">>

RepoOptions ==
    {[given |-> FALSE, value |-> <<>>]}
    \cup {[given |-> TRUE, value |-> v] :
            v \in {o_own_rep, o_three_parts, o_no_owner, o_no_repo, o_no_slash,
                   o_two_slashes, <<>>}}

DaysOptions ==
    {[given |-> FALSE, value |-> d_seven]}
    \cup {[given |-> TRUE, value |-> v] :
            v \in {d_seven, d_zero, d_negative, d_word, d_seven_word, <<>>}}

\* The configuration that loadConfig returns, and the day of the run.
Now == 1000
LoadedConfig == [owner |-> <<"c", "f", "g">>, repo |-> <<"c", "f", "g">>,
                 reviewer |-> l_rabbit, period |-> [start |-> 900, end |-> 960]]

StartCollect ==
    /\ pc = "idle"
    /\ \E r \in RepoOptions, d \in DaysOptions :
        cmd' = [name |-> "collect", repo |-> r, days |-> d]
    /\ io' = Log(io, "Collecting PR data...")
    /\ pc' = "loadConfig"
    /\ UNCHANGED <<comments, ret, op, raw, norm, prs, arg, summary, client>>

CollectLoadConfig ==
    /\ pc = "loadConfig"
    /\ cmd.name = "collect"
    /\ \/ /\ io' = [Called(io, "loadConfig") EXCEPT !.config = LoadedConfig]
          /\ pc' = "repo"
       \/ /\ io' = Catch(io)
          /\ pc' = "exited"
    /\ UNCHANGED <<comments, ret, op, raw, norm, prs, arg, cmd, summary, client>>

CollectRepo ==
    /\ pc = "repo"
    /\ IF Truthy(cmd.repo.value)
       THEN LET parts == split(cmd.repo.value, "/")
                owner == ElementOrUndefined(parts, 1)
                repo == ElementOrUndefined(parts, 2)
            IN  IF ~Truthy(owner) \/ ~Truthy(repo)
                THEN /\ io' = Exit1(Error(io, "Repository must be in format owner/repo"))
                     /\ pc' = "exited"
                ELSE /\ io' = [io EXCEPT !.config.owner = owner, !.config.repo = repo]
                     /\ pc' = "days"
       ELSE /\ io' = io
            /\ pc' = "days"
    /\ UNCHANGED <<comments, ret, op, raw, norm, prs, arg, cmd, summary, client>>

CollectDays ==
    /\ pc = "days"
    /\ IF Truthy(cmd.days.value)
       THEN LET days == parseInt(cmd.days.value)
            IN  IF days.nan \/ days.value <= 0
                THEN /\ io' = Exit1(Error(io, "Days must be a positive number"))
                     /\ pc' = "exited"
                ELSE /\ io' = Log([io EXCEPT !.config.period =
                                      [start |-> Now - days.value, end |-> Now]],
                                  "<owner>/<repo> | <reviewer> | <days> days")
                     /\ pc' = "authenticate"
       ELSE /\ io' = Log(io, "<owner>/<repo> | <reviewer> | <days> days")
            /\ pc' = "authenticate"
    /\ UNCHANGED <<comments, ret, op, raw, norm, prs, arg, cmd, summary, client>>

CollectAuthenticate ==
    /\ pc = "authenticate"
    /\ \/ /\ io' = Called(io, "authenticate")
          /\ pc' = "collectPullRequests"
       \/ /\ io' = Catch(io)
          /\ pc' = "exited"
    /\ UNCHANGED <<comments, ret, op, raw, norm, prs, arg, cmd, summary, client>>

CollectPullRequestsNoReturn ==
    /\ pc = "collectPullRequests"
    /\ \/ \E n \in 0..MaxPRs :
            /\ prs' = [i \in 1..n |-> [number |-> i, createdAt |-> Now]]
            /\ io' = Log(Called(io, "collectPullRequests"), "Found <n> pull requests")
            /\ pc' = "collectComments"
       \/ /\ io' = Catch(io)
          /\ pc' = "exited"
          /\ prs' = prs
    /\ UNCHANGED <<comments, ret, op, raw, norm, arg, cmd, summary, client>>

\* collectPullRequests, then the early return when no pull request was found.
CollectPullRequests ==
    /\ pc = "collectPullRequests"
    /\ \/ \E n \in 0..MaxPRs :
            /\ prs' = [i \in 1..n |-> [number |-> i, createdAt |-> Now]]
            /\ IF n = 0
               THEN /\ io' = Log(Log(Called(io, "collectPullRequests"), "Found <n> pull requests"),
                                 "No pull requests found in the specified time period.")
                    /\ pc' = "done"
               ELSE /\ io' = Log(Called(io, "collectPullRequests"), "Found <n> pull requests")
                    /\ pc' = "collectComments"
       \/ /\ io' = Catch(io)
          /\ pc' = "exited"
          /\ prs' = prs
    /\ UNCHANGED <<comments, ret, op, raw, norm, arg, cmd, summary, client>>

CollectComments ==
    /\ pc = "collectComments"
    /\ \/ \E n \in 0..MaxComments :
            /\ comments' = [i \in 1..n |-> NewComment(i, b_plain, u_rabbit, Now, Now, NoId, <<>>)]
            /\ io' = Log(Called(io, "collectComments"), "Found <n> comments from <reviewer>")
            /\ pc' = "saveCollectedData"
       \/ /\ io' = Catch(io)
          /\ pc' = "exited"
          /\ comments' = comments
    /\ UNCHANGED <<ret, op, raw, norm, prs, arg, cmd, summary, client>>

\* saveCollectedData writes the data file: it completes, or it is rejected
\* before the file is created, or after the file was created.
CollectSave ==
    /\ pc = "saveCollectedData"
    /\ \/ /\ io' = Log(Called([io EXCEPT !.dataFile = "written"], "saveCollectedData"),
                       "Data saved to: <outputPath>")
          /\ pc' = "done"
       \/ /\ io' = Catch(io)
          /\ pc' = "exited"
       \/ /\ io' = Catch([io EXCEPT !.dataFile = "partial"])
          /\ pc' = "exited"
    /\ UNCHANGED <<comments, ret, op, raw, norm, prs, arg, cmd, summary, client>>

NextCli ==
    \/ StartAnalyze \/ AnalyzeFileExists \/ AnalyzeValidate \/ AnalyzeLoad
    \/ AnalyzeProcess \/ AnalyzeCalculate \/ AnalyzeFormat \/ AnalyzeGenerate
    \/ AnalyzeWrite
    \/ StartConfig \/ ShowConfig \/ ShowConfigIndex
    \/ StartCollect \/ CollectLoadConfig \/ CollectRepo \/ CollectDays
    \/ CollectAuthenticate \/ CollectPullRequests \/ CollectComments \/ CollectSave

SpecCli == InitProcessor /\ [][NextCli]_vars

(***************************************************************************)
(* C12: when analyze has loaded 3 pull requests and 3 comments, one whose  *)
(* body contains [fixed], one with two thumbs_up reactions, and one with   *)
(* no marker, no reactions and updatedAt = createdAt, exactly 2 processed  *)
(* comments are resolved and the summary reports 2 resolved comments and   *)
(* a resolved percentage of 66.7 (667 tenths).                             *)
(***************************************************************************)
SummaryComputed == Len(io.calls) >= 5 /\ io.calls[5] = "calculateSummary"

MarkedFixed(c) == includes(toLowerCase(c.body), m_fixed)

TwoThumbsUp(c) ==
    /\ Len(c.reactions) = 2
    /\ \A k \in DOMAIN c.reactions : c.reactions[k].type = thumbs_up
    /\ ~HasMarker(c)

NoSignal(c) ==
    /\ ~HasMarker(c)
    /\ Len(c.reactions) = 0
    /\ c.updatedAt = c.createdAt

EndToEndScenario ==
    /\ cmd.name = "analyze"
    /\ SummaryComputed
    /\ Len(prs) = 3
    /\ Len(comments) = 3
    /\ \E i, j, k \in 1..3 :
        /\ {i, j, k} = 1..3
        /\ MarkedFixed(comments[i])
        /\ TwoThumbsUp(comments[j])
        /\ NoSignal(comments[k])

C12_EndToEnd ==
    EndToEndScenario =>
        /\ Cardinality({i \in DOMAIN ret : ret[i].isResolved}) = 2
        /\ summary.resolvedComments = 2
        /\ summary.resolvedPercentage = 667

\* The scenario in the order of the claim, with the report written.
C12_Witness ==
    /\ EndToEndScenario
    /\ MarkedFixed(comments[1])
    /\ TwoThumbsUp(comments[2])
    /\ NoSignal(comments[3])
    /\ summary.totalPRs = 3
    /\ io.report = "written"

(***************************************************************************)
(* C15: whenever analyze runs on an existing, structurally valid input     *)
(* file with a --report value that is neither json nor markdown (compared  *)
(* case-insensitively), the run ends with an error printed, a non-zero     *)
(* exit and no report file, whatever data was loaded.                      *)
(***************************************************************************)
Ended == pc \in {"done", "exited"}

InputFileValid == Len(io.calls) >= 2 /\ io.calls[2] = "validateDataFile"

C15_UnsupportedFormatRejected ==
    (/\ cmd.name = "analyze"
     /\ toLowerCase(cmd.report) \notin {f_json, f_markdown}
     /\ InputFileValid
     /\ Ended)
    => /\ io.exit # 0
       /\ Len(io.stderr) > 0
       /\ io.report = "absent"

(***************************************************************************)
(* C16: when collect is given a --days value that is not a positive number *)
(* or a --repo value that is not a non-empty owner, one slash and a        *)
(* non-empty repo, it never authenticates, never fetches pull requests or  *)
(* comments, never writes the data file, and ends with a non-zero exit.    *)
(***************************************************************************)
IsPositiveNumber(s) ==
    /\ Len(s) > 0
    /\ \A k \in DOMAIN s : s[k] \in Digits
    /\ \E k \in DOMAIN s : s[k] # "0"

IsOwnerRepo(s) ==
    \E k \in 2..(Len(s) - 1) :
        /\ s[k] = "/"
        /\ \A j \in DOMAIN s : j # k => s[j] # "/"

InvalidCollectOptions ==
    /\ cmd.name = "collect"
    /\ \/ cmd.days.given /\ ~IsPositiveNumber(cmd.days.value)
       \/ cmd.repo.given /\ ~IsOwnerRepo(cmd.repo.value)

ExternalActions == {"authenticate", "collectPullRequests", "collectComments", "saveCollectedData"}

C16_InvalidOptionsRejectedFirst ==
    InvalidCollectOptions =>
        /\ \A k \in DOMAIN io.calls : io.calls[k] \notin ExternalActions
        /\ io.dataFile = "absent"
        /\ Ended => io.exit # 0

(***************************************************************************)
(* C17: in analyze a report file exists only after the input file was      *)
(* found, validated and loaded with at least one comment, the comments     *)
(* were processed, the metrics computed and the format accepted, in that   *)
(* order, the write being the last step; a run that ends with a non-zero   *)
(* exit has written no report file.                                        *)
(***************************************************************************)
StepsBeforeWrite ==
    <<"fileExists", "validateDataFile", "loadCollectedData", "processComments",
      "calculateSummary", "format", "generateReport">>

C17_NoReportOnFailure ==
    cmd.name = "analyze" =>
        /\ io.report # "absent" =>
            /\ Len(io.calls) >= Len(StepsBeforeWrite)
            /\ SubSeq(io.calls, 1, Len(StepsBeforeWrite)) = StepsBeforeWrite
            /\ Len(comments) > 0
            /\ Ended
        /\ io.exit # 0 => io.report = "absent"

(***************************************************************************)
(* C18: every run of collect, analyze or config that ends in a failure has *)
(* printed exactly one diagnostic line and has a non-zero exit code.       *)
(***************************************************************************)
C18_OneDiagnosticLine ==
    pc = "exited" => (Len(io.stderr) = 1 /\ io.exit # 0)

(***************************************************************************)
(* The GitHub client (its source is not part of the repository snapshot;   *)
(* modelled from tests/unit/github.test.ts).  history lists the calls made *)
(* on the client with their outcomes.                                      *)
(***************************************************************************)
MaxCalls == 3

AuthConfigs == {[type |-> t, supplied |-> s] : t \in {"token", "app"}, s \in BOOLEAN}

\* The error of a configuration that is rejected before any request is made.
authConfigError(config) ==
    IF config.supplied THEN ""
    ELSE IF config.type = "token" THEN "GitHub token is required for token authentication"
    ELSE "GitHub App configuration is required for app authentication"

isAuthenticated(c) == c.authenticated

getPullRequestsUnguarded(c, found) ==
    [call |-> "getPullRequests", rejected |-> FALSE, error |-> "", data |-> found]

getPullRequests(c, found) ==
    IF ~isAuthenticated(c)
    THEN [call |-> "getPullRequests", rejected |-> TRUE,
          error |-> "Client must be authenticated before making API calls", data |-> <<>>]
    ELSE [call |-> "getPullRequests", rejected |-> FALSE, error |-> "", data |-> found]

\* authenticate(config): rejected for an incomplete configuration and when
\* the remote check of the credentials fails; the client is authenticated
\* once the check succeeded.
ClientAuthenticate ==
    /\ Len(client.history) < MaxCalls
    /\ \E config \in AuthConfigs, accepted \in BOOLEAN :
        LET error == IF authConfigError(config) # "" THEN authConfigError(config)
                     ELSE IF accepted THEN "" ELSE "Authentication failed"
        IN  client' = [authenticated |-> client.authenticated \/ error = "",
                       history |-> Append(client.history,
                                          [call |-> "authenticate", rejected |-> error # "",
                                           error |-> error, data |-> <<>>])]
    /\ UNCHANGED <<comments, ret, op, raw, norm, prs, arg, cmd, pc, io, summary>>

ClientGetPullRequests ==
    /\ Len(client.history) < MaxCalls
    /\ \E n \in 0..1 :
        client' = [client EXCEPT !.history =
                      Append(@, getPullRequests(client,
                                                [i \in 1..n |-> [number |-> i, createdAt |-> Now]]))]
    /\ UNCHANGED <<comments, ret, op, raw, norm, prs, arg, cmd, pc, io, summary>>

ClientIsAuthenticated ==
    /\ Len(client.history) < MaxCalls
    /\ client' = [client EXCEPT !.history =
                     Append(@, [call |-> "isAuthenticated", rejected |-> FALSE, error |-> "",
                                data |-> <<isAuthenticated(client)>>])]
    /\ UNCHANGED <<comments, ret, op, raw, norm, prs, arg, cmd, pc, io, summary>>

NextClient == ClientAuthenticate \/ ClientGetPullRequests \/ ClientIsAuthenticated

SpecClient == InitProcessor /\ [][NextClient]_vars

(***************************************************************************)
(* C19: a client on which no authenticate call has succeeded reports       *)
(* isAuthenticated() = false, and every getPullRequests call made on it is *)
(* rejected with 'Client must be authenticated before making API calls'    *)
(* and returns no data.                                                    *)
(***************************************************************************)
AuthenticatedBefore(k) ==
    \E j \in 1..(k - 1) :
        client.history[j].call = "authenticate" /\ ~client.history[j].rejected

C19_AuthenticationFirst ==
    \A k \in DOMAIN client.history :
        LET h == client.history[k]
        IN  ~AuthenticatedBefore(k) =>
                /\ h.call = "getPullRequests" =>
                    /\ h.rejected
                    /\ h.error = "Client must be authenticated before making API calls"
                    /\ h.data = <<>>
                /\ h.call = "isAuthenticated" => h.data = <<FALSE>>

\* A new client answers false, a fetch after a failed authenticate is rejected.
C19_Witness ==
    /\ Len(client.history) = 3
    /\ client.history[1].call = "isAuthenticated"
    /\ client.history[2].call = "authenticate" /\ client.history[2].rejected
    /\ client.history[3].call = "getPullRequests" /\ client.history[3].rejected

(***************************************************************************)
(* Comment categories (the source of CommentAnalytics is not part of the   *)
(* repository snapshot; modelled from section 4.1 of the specification and *)
(* tests/unit/analytics.test.ts).                                          *)
(***************************************************************************)
c_suggest == <<"s", "u", "g", "g", "e", "s", "t">>
c_recommend == <<"r", "e", "c", "o", "m", "m", "e", "n", "d">>
c_consider == <<"c", "o", "n", "s", "i", "d", "e", "r">>
c_bug == <<"b", "u", "g">>
c_error == <<"e", "r", "r", "o", "r">>
c_broken == <<"b", "r", "o", "k", "e", "n">>
c_issue == <<"i", "s", "s", "u", "e">>
c_why == <<"w", "h", "y">>
c_what == <<"w", "h", "a", "t">>
c_how == <<"h", "o", "w">>
c_great == <<"g", "r", "e", "a", "t">>
c_nice == <<"n", "i", "c", "e">>
c_looks_good == <<"l", "o", "o", "k", "s", " ", "g", "o", "o", "d">>
c_lgtm == <<"l", "g", "t", "m">>

suggestionKeywords == {c_suggest, c_recommend, c_consider}
issueKeywords == {c_bug, c_error, c_broken, c_issue}
questionKeywords == {c_why, c_what, c_how}
praiseKeywords == {c_great, c_nice, c_looks_good, c_lgtm}

includesAny(s, words) == \E w \in words : includes(s, w)

endsWithQuestionMark(s) == Len(s) > 0 /\ s[Len(s)] = "?"

classifyCategoryQuestionFirst(comment) ==
    LET body == toLowerCase(comment.body)
    IN  IF includesAny(body, suggestionKeywords) THEN "suggestion"
        ELSE IF includesAny(body, questionKeywords) \/ endsWithQuestionMark(body) THEN "question"
        ELSE IF includesAny(body, issueKeywords) THEN "issue"
        ELSE IF includesAny(body, praiseKeywords) THEN "praise"
        ELSE "unknown"

classifyCategory(comment) ==
    LET body == toLowerCase(comment.body)
    IN  IF includesAny(body, suggestionKeywords) THEN "suggestion"
        ELSE IF includesAny(body, issueKeywords) THEN "issue"
        ELSE IF includesAny(body, questionKeywords) \/ endsWithQuestionMark(body) THEN "question"
        ELSE IF includesAny(body, praiseKeywords) THEN "praise"
        ELSE "unknown"

(***************************************************************************)
(* The category runs: a body is one of the bodies of the unit tests or is  *)
(* put together from up to MaxFragments fragments.                         *)
(***************************************************************************)
t_suggest == <<"I", " ", "s", "u", "g", "g", "e", "s", "t", " ", "y", "o", "u", " ", "r", "e", "f", "a", "c", "t", "o", "r", " ", "t", "h", "i", "s", " ", "f", "u", "n", "c", "t", "i", "o", "n">>
t_bug == <<"T", "h", "e", "r", "e", " ", "i", "s", " ", "a", " ", "b", "u", "g", " ", "i", "n", " ", "t", "h", "i", "s", " ", "c", "o", "d", "e">>
t_why == <<"W", "h", "y", " ", "d", "i", "d", " ", "y", "o", "u", " ", "c", "h", "o", "o", "s", "e", " ", "t", "h", "i", "s", " ", "a", "p", "p", "r", "o", "a", "c", "h", "?">>
t_great == <<"T", "h", "i", "s", " ", "l", "o", "o", "k", "s", " ", "g", "r", "e", "a", "t", "!">>
t_random == <<"R", "a", "n", "d", "o", "m", " ", "c", "o", "m", "m", "e", "n", "t", " ", "w", "i", "t", "h", "o", "u", "t", " ", "k", "e", "y", "w", "o", "r", "d", "s">>
g_consider == <<"C", "o", "n", "s", "i", "d", "e", "r", " ">>
g_bug == <<"B", "U", "G", " ">>
g_why == <<"W", "h", "y", " ">>
g_nice == <<"N", "i", "c", "e", " ">>
g_mark == <<"?">>
g_word == <<"i", "t", " ">>

MaxFragments == 3

TestBodies == {t_suggest, t_bug, t_why, t_great, t_random}

Fragments == {g_consider, g_bug, g_why, g_nice, g_mark, g_word}

RECURSIVE concat(_)
concat(parts) == IF Len(parts) = 0 THEN <<>> ELSE Head(parts) \o concat(Tail(parts))

PickBody ==
    /\ op = "load"
    /\ Len(arg) = 0
    /\ \E b \in TestBodies : arg' = <<b>>
    /\ UNCHANGED <<comments, ret, op, raw, norm, prs, cliVars>>

AppendFragment ==
    /\ op = "load"
    /\ Len(arg) < MaxFragments
    /\ \A k \in DOMAIN arg : arg[k] \in Fragments
    /\ \E f \in Fragments : arg' = Append(arg, f)
    /\ UNCHANGED <<comments, ret, op, raw, norm, prs, cliVars>>

\* classifyComment(createComment(body))
ClassifyComment ==
    /\ op = "load"
    /\ comments' = <<NewComment(1, concat(arg), u_rabbit, 1000, 1000, NoId, <<>>)>>
    /\ ret' = classifyCategory(comments'[1])
    /\ op' = "classifyComment"
    /\ UNCHANGED <<raw, norm, prs, arg, cliVars>>

NextAnalytics == PickBody \/ AppendFragment \/ ClassifyComment

SpecAnalytics == InitProcessor /\ [][NextAnalytics]_vars

(***************************************************************************)
(* C20 as stated: classifyCategory returns one of suggestion, issue,       *)
(* question, praise, unknown: the first in that order whose keywords occur *)
(* in the lower-cased body, unknown when none occurs; and every body with  *)
(* an issue keyword and a question mark is classified issue.               *)
(***************************************************************************)
Categories == {"suggestion", "issue", "question", "praise", "unknown"}

CategoryOrder == <<"suggestion", "issue", "question", "praise">>

Occurs(category, body) ==
    CASE category = "suggestion" -> includesAny(body, {c_suggest, c_recommend, c_consider})
      [] category = "issue" -> includesAny(body, {c_bug, c_error, c_broken, c_issue})
      [] category = "question" -> includesAny(body, {c_why, c_what, c_how})
                                  \/ (Len(body) > 0 /\ body[Len(body)] = "?")
      [] category = "praise" -> includesAny(body, {c_great, c_nice, c_looks_good, c_lgtm})

FirstInOrder(category, body) ==
    \E k \in DOMAIN CategoryOrder :
        /\ CategoryOrder[k] = category
        /\ Occurs(category, body)
        /\ \A j \in 1..(k - 1) : ~Occurs(CategoryOrder[j], body)

IssueWithQuestionMark(body) == Occurs("issue", body) /\ includes(body, <<"?">>)

C20_Original ==
    op = "classifyComment" =>
        LET body == toLowerCase(comments[1].body)
        IN  /\ ret \in Categories
            /\ \A c \in (Categories \ {"unknown"}) : ret = c <=> FirstInOrder(c, body)
            /\ IssueWithQuestionMark(body) => ret = "issue"

(***************************************************************************)
(* C20 amended: the same, the last part holding for every body with an     *)
(* issue keyword, a question mark and no suggestion keyword.               *)
(***************************************************************************)
C20_Category ==
    op = "classifyComment" =>
        LET body == toLowerCase(comments[1].body)
        IN  /\ ret \in Categories
            /\ \A c \in (Categories \ {"unknown"}) : ret = c <=> FirstInOrder(c, body)
            /\ (IssueWithQuestionMark(body) /\ ~Occurs("suggestion", body)) => ret = "issue"

\* A body with an issue keyword and a question mark, classified issue.
C20_Witness ==
    /\ op = "classifyComment"
    /\ IssueWithQuestionMark(toLowerCase(comments[1].body))
    /\ endsWithQuestionMark(comments[1].body)
    /\ ret = "issue"

(***************************************************************************)
(* The effectiveness score: the mean of the resolution, reply and          *)
(* positivity rates (tenths of a percent), rounded to the nearest tenth,   *)
(* and its band.                                                           *)
(***************************************************************************)
effectivenessScoreWeighted(resolutionRate, replyRate, positivityRate) ==
    (2 * (2 * resolutionRate + replyRate + positivityRate) + 4) \div 8

effectivenessScore(resolutionRate, replyRate, positivityRate) ==
    (2 * (resolutionRate + replyRate + positivityRate) + 3) \div 6

effectivenessBand(score) ==
    IF score >= 700 THEN "excellent"
    ELSE IF score >= 400 THEN "good"
    ELSE "needs improvement"

(***************************************************************************)
(* The metrics runs: up to MaxPRs pull requests and up to MaxComments      *)
(* processed comments are summarised and scored, or three sample rates are *)
(* scored.                                                                 *)
(***************************************************************************)
reactionOf(type, synthetic) ==
    [type |-> type, user |-> u_alice, createdAt |-> 2000, synthetic |-> synthetic]

humanReply == NewComment(9, r_thanks, u_alice, 2000, 2000, NoId, <<>>)

ProcessedKinds ==
    {[isResolved |-> TRUE, replies |-> <<>>,
      reactions |-> <<reactionOf(thumbs_up, FALSE), reactionOf(thumbs_up, TRUE)>>],
     [isResolved |-> FALSE, replies |-> <<humanReply>>,
      reactions |-> <<reactionOf(thumbs_down, FALSE)>>],
     [isResolved |-> TRUE, replies |-> <<humanReply>>,
      reactions |-> <<reactionOf(heart, FALSE), reactionOf(confused, FALSE)>>],
     [isResolved |-> FALSE, replies |-> <<>>, reactions |-> <<reactionOf(laugh, FALSE)>>],
     [isResolved |-> FALSE, replies |-> <<>>, reactions |-> <<>>]}

ProcessedComments(id) ==
    {[NewComment(id, b_plain, u_rabbit, 1000, 1000, NoId, k.reactions)
         EXCEPT !.isResolved = k.isResolved, !.replies = k.replies] : k \in ProcessedKinds}

RateSamples == {0, 375, 399, 400, 699, 750, 1000}

LoadProcessed ==
    /\ op = "load"
    /\ Len(comments) < MaxComments
    /\ \E c \in ProcessedComments(Len(comments) + 1) : comments' = Append(comments, c)
    /\ UNCHANGED <<ret, op, raw, norm, prs, arg, cliVars>>

LoadCollectedPRs ==
    /\ op = "load"
    /\ Len(prs) < MaxPRs
    /\ prs' = Append(prs, [number |-> Len(prs) + 1, createdAt |-> 1000])
    /\ UNCHANGED <<comments, ret, op, raw, norm, arg, cliVars>>

\* calculator.calculateSummary(prs, processedComments)
CalculateSummary ==
    /\ op = "load"
    /\ summary' = calculateSummary(prs, comments)
    /\ op' = "calculateSummary"
    /\ UNCHANGED <<comments, ret, raw, norm, prs, arg, cmd, pc, io, client>>

\* The score of the rates of the summary.
ScoreSummary ==
    /\ op = "calculateSummary"
    /\ arg' = <<summary.resolvedPercentage, summary.repliedPercentage,
                summary.positivePercentage>>
    /\ ret' = [score |-> effectivenessScore(arg'[1], arg'[2], arg'[3]),
               band |-> effectivenessBand(effectivenessScore(arg'[1], arg'[2], arg'[3]))]
    /\ op' = "effectivenessScore"
    /\ UNCHANGED <<comments, raw, norm, prs, cliVars>>

\* The score of three given rates.
ScoreRates ==
    /\ op = "load"
    /\ Len(comments) = 0
    /\ Len(prs) = 0
    /\ \E r1 \in RateSamples, r2 \in RateSamples, r3 \in RateSamples :
        /\ arg' = <<r1, r2, r3>>
        /\ ret' = [score |-> effectivenessScore(r1, r2, r3),
                   band |-> effectivenessBand(effectivenessScore(r1, r2, r3))]
    /\ op' = "effectivenessScore"
    /\ UNCHANGED <<comments, raw, norm, prs, cliVars>>

NextMetrics ==
    LoadProcessed \/ LoadCollectedPRs \/ CalculateSummary \/ ScoreSummary \/ ScoreRates

SpecMetrics == InitProcessor /\ [][NextMetrics]_vars

(***************************************************************************)
(* C21: every percentage of the summary is 0 when its denominator is 0:    *)
(* resolvedPercentage and the reply percentage for an empty comment list,  *)
(* averageCommentsPerPr for zero pull requests, and the positive and       *)
(* negative reaction percentages when positive + negative = 0.             *)
(***************************************************************************)
C21_ZeroDenominators ==
    op = "calculateSummary" =>
        /\ Len(comments) = 0 =>
            (summary.resolvedPercentage = 0 /\ summary.repliedPercentage = 0)
        /\ Len(prs) = 0 => summary.averageCommentsPerPr = 0
        /\ summary.positiveReactions + summary.negativeReactions = 0 =>
            (summary.positivePercentage = 0 /\ summary.negativePercentage = 0)

\* Comments without positive or negative reactions and no pull request.
C21_Witness ==
    /\ op = "calculateSummary"
    /\ Len(prs) = 0
    /\ Len(comments) > 0
    /\ summary.positiveReactions + summary.negativeReactions = 0
    /\ summary.positivePercentage = 0
    /\ summary.averageCommentsPerPr = 0

hasAddressedInCommitMessage(comment) ==
    \E word \in {w_addressed, w_fixed, w_resolved, w_updated} :
        regexTest(comment.body, word)

\* String.prototype.match without the g flag: the leftmost match; its group
\* takes as many hex characters as there are, up to MaxHashLen.  null when
\* nothing matches.
NullHash == <<"null">>

RECURSIVE hexRun(_, _, _)
hexRun(s, from, taken) ==
    IF taken < MaxHashLen /\ from + taken <= Len(s) /\ toLowerChar(s[from + taken]) \in HexDigits
    THEN hexRun(s, from, taken + 1)
    ELSE taken

matchWord(s, i) ==
    CHOOSE word \in {w_addressed, w_fixed, w_resolved, w_updated} : matchesAt(s, i, word)

extractCommitHashWholeMatch(comment) ==
    LET s == comment.body
        starts == {i \in 0..Len(s) :
                      \E word \in {w_addressed, w_fixed, w_resolved, w_updated} :
                          matchesAt(s, i, word)}
    IN  IF starts = {} THEN NullHash
        ELSE LET i == CHOOSE k \in starts : \A j \in starts : k <= j
                 from == i + Len(matchWord(s, i)) + Len(w_in_commit) + 1
             IN  SubSeq(s, i + 1, from + hexRun(s, from, 0) - 1)

extractCommitHash(comment) ==
    LET s == comment.body
        starts == {i \in 0..Len(s) :
                      \E word \in {w_addressed, w_fixed, w_resolved, w_updated} :
                          matchesAt(s, i, word)}
    IN  IF starts = {} THEN NullHash
        ELSE LET i == CHOOSE k \in starts : \A j \in starts : k <= j
                 from == i + Len(matchWord(s, i)) + Len(w_in_commit) + 1
             IN  SubSeq(s, from, from + hexRun(s, from, 0) - 1)

(***************************************************************************)
(* The detector runs: a body is put together from an optional prefix, a    *)
(* verb, a separator, a hash and an optional second message.               *)
(***************************************************************************)
x_see == <<"s", "e", "e", " ">>
v_Addressed == <<"A", "d", "d", "r", "e", "s", "s", "e", "d">>
v_FIXED == <<"F", "I", "X", "E", "D">>
v_closed == <<"c", "l", "o", "s", "e", "d">>
s_in_commit_caps == <<" ", "I", "n", " ", "C", "o", "m", "m", "i", "t", " ">>
s_two_spaces == <<" ", "i", "n", " ", " ", "c", "o", "m", "m", "i", "t", " ">>
s_commit == <<" ", "c", "o", "m", "m", "i", "t", " ">>
h_five == <<"a", "b", "c", "1", "2">>
h_six == <<"a", "b", "c", "1", "2", "3">>
h_mixed == <<"A", "B", "C", "d", "e", "f", "0">>
h_forty == <<"0", "1", "2", "3", "4", "5", "6", "7", "8", "9", "a", "b", "c", "d", "e", "f", "0", "1", "2", "3", "4", "5", "6", "7", "8", "9", "a", "b", "c", "d", "e", "f", "0", "1", "2", "3", "4", "5", "6", "7">>
h_forty_one == <<"0", "1", "2", "3", "4", "5", "6", "7", "8", "9", "a", "b", "c", "d", "e", "f", "0", "1", "2", "3", "4", "5", "6", "7", "8", "9", "a", "b", "c", "d", "e", "f", "0", "1", "2", "3", "4", "5", "6", "7", "8">>
h_nohex == <<"g", "h", "i", "j", "k", "l">>
h_then_letter == <<"a", "b", "c", "1", "2", "3", "4", "z">>
x_second == <<" ", "f", "i", "x", "e", "d", " ", "i", "n", " ", "c", "o", "m", "m", "i", "t", " ", "1", "2", "3", "4", "5", "6", "7">>

CommitBodies ==
    {pre \o verb \o sep \o hash \o post :
        pre \in {<<>>, x_see},
        verb \in {v_Addressed, v_FIXED, w_resolved, w_updated, v_closed},
        sep \in {w_in_commit, s_in_commit_caps, s_two_spaces, s_commit},
        hash \in {h_five, h_six, h_mixed, h_forty, h_forty_one, h_nohex, h_then_letter},
        post \in {<<>>, x_second}}

PickCommitBody ==
    /\ op = "load"
    /\ Len(comments) = 0
    /\ \E body \in CommitBodies :
        comments' = <<NewComment(1, body, u_rabbit, 1000, 1000, NoId, <<>>)>>
    /\ UNCHANGED <<ret, op, raw, norm, prs, arg, cliVars>>

\* The three detectors on the same comment.
DetectCommit ==
    /\ op = "load"
    /\ Len(comments) = 1
    /\ ret' = [trigger |-> hasCodeRabbitResolutionMessage(comments[1]),
               addressed |-> hasAddressedInCommitMessage(comments[1]),
               hash |-> extractCommitHash(comments[1])]
    /\ op' = "extractCommitHash"
    /\ UNCHANGED <<comments, raw, norm, prs, arg, cliVars>>

NextDetector == PickCommitBody \/ DetectCommit

SpecDetector == InitProcessor /\ [][NextDetector]_vars

(***************************************************************************)
(* C23: the synthetic-reaction trigger, hasAddressedInCommitMessage and    *)
(* extractCommitHash(...) != null hold for the same comments, and a hash   *)
(* that is returned is 6 to 40 hexadecimal characters standing in the body *)
(* right after "in commit ".                                               *)
(***************************************************************************)
FollowsInCommit(body, hash) ==
    \E p \in 1..Len(body) :
        /\ p > Len(w_in_commit)
        /\ p + Len(hash) - 1 <= Len(body)
        /\ SubSeq(body, p, p + Len(hash) - 1) = hash
        /\ toLowerCase(SubSeq(body, p - Len(w_in_commit) + 1, p - 1)) = Tail(w_in_commit)

C23_DetectorsAgree ==
    op = "extractCommitHash" =>
        /\ ret.trigger = ret.addressed
        /\ ret.addressed <=> ret.hash # NullHash
        /\ ret.trigger <=> MatchesCommitMessage(comments[1].body)
        /\ ret.hash # NullHash =>
            /\ Len(ret.hash) >= 6
            /\ Len(ret.hash) <= 40
            /\ \A k \in DOMAIN ret.hash : IsHex(ret.hash[k])
            /\ FollowsInCommit(comments[1].body, ret.hash)

\* A hash of forty characters is cut out of forty-one.
C23_Witness ==
    /\ op = "extractCommitHash"
    /\ ret.trigger
    /\ ret.hash = h_forty
    /\ includes(comments[1].body, h_forty_one)

(***************************************************************************)
(* C24: collect authenticates before it fetches pull requests, fetches     *)
(* pull requests before comments, and writes the data file only after      *)
(* both fetches succeeded with at least one pull request; with zero pull   *)
(* requests it ends successfully, fetches no comments and writes nothing.  *)
(***************************************************************************)
CalledAt(name) == {k \in DOMAIN io.calls : io.calls[k] = name}

CalledBefore(first, second) ==
    \A k \in CalledAt(second) : \E j \in CalledAt(first) : j < k

C24_CollectOrder ==
    cmd.name = "collect" =>
        /\ CalledBefore("authenticate", "collectPullRequests")
        /\ CalledBefore("collectPullRequests", "collectComments")
        /\ CalledBefore("collectComments", "saveCollectedData")
        /\ pc = "collectPullRequests" => CalledAt("authenticate") # {}
        /\ pc = "collectComments" => CalledAt("collectPullRequests") # {} /\ Len(prs) >= 1
        /\ pc = "saveCollectedData" => CalledAt("collectComments") # {} /\ Len(prs) >= 1
        /\ io.dataFile # "absent" =>
            /\ CalledAt("collectPullRequests") # {}
            /\ CalledAt("collectComments") # {}
            /\ Len(prs) >= 1
        /\ (CalledAt("collectPullRequests") # {} /\ Len(prs) = 0) =>
            /\ pc = "done"
            /\ io.exit = 0
            /\ CalledAt("collectComments") = {}
            /\ io.dataFile = "absent"

\* Both ends: a run that found nothing, and (in another behaviour) a run
\* that wrote the file; the first is the case the claim singles out.
C24_Witness ==
    /\ cmd.name = "collect"
    /\ pc = "done"
    /\ CalledAt("collectPullRequests") # {}
    /\ Len(prs) = 0
    /\ io.exit = 0

(***************************************************************************)
(* C25: filterByTimeRange, filterByReviewer, detectResolution,             *)
(* classifyReactions and detectReplies each return an empty list, without  *)
(* raising, when the list they are given is empty or missing.              *)
(***************************************************************************)
ProcessorStages ==
    {"filterByTimeRange", "filterByReviewer", "detectResolution",
     "classifyReactions", "detectReplies"}

EmptyOrMissing(input) == ~input.given \/ Len(input.items) = 0

C25_EmptyInput ==
    (op \in ProcessorStages /\ EmptyOrMissing(arg.input)) => ret = <<>>

C25_Witness ==
    /\ op = "detectReplies"
    /\ ~arg.input.given
    /\ ret = <<>>

(***************************************************************************)
(* ReactionClassifier.  A score is kept as the fraction the division is    *)
(* taken of; the comment is the one field the functions read.              *)
(***************************************************************************)
positiveTypes == {thumbs_up, heart, hooray, rocket}

negativeTypes == {thumbs_down, confused}

getPositiveReactionsReal(comment) ==
    IF ~comment.reactions.given THEN <<>>
    ELSE SelectSeq(comment.reactions.items,
                   LAMBDA reaction : reaction.type \in positiveTypes /\ ~reaction.synthetic)

getPositiveReactions(comment) ==
    IF ~comment.reactions.given THEN <<>>
    ELSE SelectSeq(comment.reactions.items, LAMBDA reaction : reaction.type \in positiveTypes)

getNegativeReactions(comment) ==
    IF ~comment.reactions.given THEN <<>>
    ELSE SelectSeq(comment.reactions.items, LAMBDA reaction : reaction.type \in negativeTypes)

Neutral == [num |-> 0, den |-> 1]

calculateSentimentScore(comment) ==
    LET positive == Len(getPositiveReactions(comment))
        negative == Len(getNegativeReactions(comment))
        total == positive + negative
    IN  IF total = 0 THEN Neutral
        ELSE [num |-> positive - negative, den |-> total]

MaxSentimentReactions == 3

SentimentReactions ==
    {reactionOf(t, FALSE) :
        t \in {thumbs_up, heart, thumbs_down, confused, laugh, eyes, unknown}}
    \cup {reactionOf(thumbs_up, TRUE)}

\* A comment with an empty reaction list, or without the field.
PickSentimentComment ==
    /\ op = "load"
    /\ Len(comments) = 0
    /\ Len(prs) = 0
    /\ \E reactions \in {Given(<<>>), Missing} : arg' = [reactions |-> reactions]
    /\ op' = "reactions"
    /\ UNCHANGED <<comments, ret, raw, norm, prs, cliVars>>

AddSentimentReaction ==
    /\ op = "reactions"
    /\ arg.reactions.given
    /\ Len(arg.reactions.items) < MaxSentimentReactions
    /\ \E reaction \in SentimentReactions :
        arg' = [reactions |-> Given(Append(arg.reactions.items, reaction))]
    /\ UNCHANGED <<comments, ret, op, raw, norm, prs, cliVars>>

CalculateSentimentScore ==
    /\ op = "reactions"
    /\ ret' = calculateSentimentScore(arg)
    /\ op' = "calculateSentimentScore"
    /\ UNCHANGED <<comments, raw, norm, prs, arg, cliVars>>

NextSentiment == PickSentimentComment \/ AddSentimentReaction \/ CalculateSentimentScore

SpecSentiment == InitProcessor /\ [][NextSentiment]_vars

(***************************************************************************)
(* C26: calculateSentimentScore is 0 for a comment without positive and    *)
(* negative reactions; otherwise it is (positive - negative) / (positive + *)
(* negative), lies between -1 and 1, is 1 exactly when no counted reaction *)
(* is negative and -1 exactly when none is positive.  Synthetic reactions  *)
(* are counted; laugh, eyes and unknown are in neither group.              *)
(***************************************************************************)
ReactionsOfKinds(kinds) ==
    Cardinality({k \in DOMAIN arg.reactions.items : arg.reactions.items[k].type \in kinds})

C26_SentimentScore ==
    op = "calculateSentimentScore" =>
        LET positive == ReactionsOfKinds({thumbs_up, heart, hooray, rocket})
            negative == ReactionsOfKinds({thumbs_down, confused})
            others == ReactionsOfKinds({laugh, eyes, unknown})
        IN  /\ positive + negative + others = Len(arg.reactions.items)
            /\ positive + negative = 0 => ret.num = 0
            /\ positive + negative > 0 =>
                /\ ret.den = positive + negative
                /\ ret.num = positive - negative
                /\ ret.num <= ret.den
                /\ 0 - ret.den <= ret.num
                /\ ret.num = ret.den <=> negative = 0
                /\ ret.num = 0 - ret.den <=> positive = 0

\* One third: a synthetic thumbs_up and a heart against a thumbs_down.
C26_Witness ==
    /\ op = "calculateSentimentScore"
    /\ ret = [num |-> 1, den |-> 3]
    /\ \E k \in DOMAIN arg.reactions.items : arg.reactions.items[k].synthetic

(***************************************************************************)
(* classifyReactions applied to its own output.  arg logs the              *)
(* applications after the first.                                           *)
(***************************************************************************)
MaxApplications == 3

ClassifyAgain ==
    /\ op = "classifyReactions"
    /\ Len(arg) < MaxApplications - 1
    /\ ret' = classifyReactions(ret)
    /\ arg' = Append(arg, "classifyReactions")
    /\ UNCHANGED <<comments, op, raw, norm, prs, cliVars>>

NextReclassify == LoadStage \/ ClassifyReactions \/ ClassifyAgain

SpecReclassify == InitProcessor /\ [][NextReclassify]_vars

(***************************************************************************)
(* C27: after any number of successive applications of classifyReactions   *)
(* each comment carries at most one synthetic reaction.                    *)
(***************************************************************************)
SyntheticCount(comment) ==
    Cardinality({k \in DOMAIN comment.reactions : comment.reactions[k].synthetic})

C27_AtMostOneSynthetic ==
    op = "classifyReactions" =>
        \A i \in DOMAIN ret : SyntheticCount(ret[i]) <= 1

(***************************************************************************)
(* C28: no comment is its own reply: for every comment A returned by       *)
(* detectReplies, A.replies holds no comment whose id is A.id, also when   *)
(* a comment's inReplyToId is its own id.                                  *)
(***************************************************************************)
C28_NoSelfReply ==
    op = "detectReplies" =>
        \A i \in DOMAIN ret :
            \A k \in DOMAIN ret[i].replies : ret[i].replies[k].id # ret[i].id

(***************************************************************************)
(* ReplyDetector.  detectReplies always sets replies to a list, so the     *)
(* `!comment.replies` branches are not taken on the comments it produces.  *)
(* A time that may be null is a record, as the result of parseInt is.      *)
(***************************************************************************)
hasHumanRepliesAnyList(comment) == Len(comment.replies) >= 0

hasHumanReplies(comment) == Len(comment.replies) > 0

countHumanReplies(comment) ==
    Len(SelectSeq(comment.replies, LAMBDA reply : reply.author.type # "Bot"))

NullTime == [null |-> TRUE, value |-> 0]

getFastestReplyTime(comment) ==
    IF Len(comment.replies) = 0 THEN NullTime
    ELSE LET humanReplies == SelectSeq(comment.replies, LAMBDA reply : reply.author.type # "Bot")
             originalTime == comment.createdAt
             replyTimes == {humanReplies[k].createdAt - originalTime : k \in DOMAIN humanReplies}
         IN  IF Len(humanReplies) = 0 THEN NullTime
             ELSE [null |-> FALSE,
                   value |-> CHOOSE t \in replyTimes : \A u \in replyTimes : t <= u]

\* Threads whose comments are written at the start or at the end of the
\* reply window.
LoadThread ==
    /\ op = "load"
    /\ Len(comments) < MaxComments
    /\ \E c \in ReplyComments(Len(comments) + 1) :
        /\ c.createdAt <= 1000 + maxReplyWindow
        /\ comments' = Append(comments, c)
    /\ UNCHANGED <<ret, op, raw, norm, prs, arg, cliVars>>

\* The three utilities on every comment that detectReplies returned.
ReplyUtilities ==
    /\ op = "detectReplies"
    /\ arg' = [i \in DOMAIN ret |->
                [has |-> hasHumanReplies(ret[i]),
                 count |-> countHumanReplies(ret[i]),
                 fastest |-> getFastestReplyTime(ret[i])]]
    /\ op' = "ReplyDetector"
    /\ UNCHANGED <<comments, ret, raw, norm, prs, cliVars>>

NextReplyDetector == LoadThread \/ DetectReplies \/ ReplyUtilities

SpecReplyDetector == InitProcessor /\ [][NextReplyDetector]_vars

(***************************************************************************)
(* C29: for every comment produced by detectReplies, countHumanReplies is  *)
(* the number of attached replies, hasHumanReplies is true exactly when    *)
(* that count is greater than 0, and getFastestReplyTime is null exactly   *)
(* when the count is 0.                                                    *)
(***************************************************************************)
C29_UtilitiesAgree ==
    op = "ReplyDetector" =>
        \A i \in DOMAIN ret :
            /\ arg[i].count = Len(ret[i].replies)
            /\ arg[i].has <=> arg[i].count > 0
            /\ arg[i].fastest.null <=> arg[i].count = 0

\* A comment answered a whole reply window later by another comment, next
\* to a comment without replies.
C29_Witness ==
    /\ op = "ReplyDetector"
    /\ \E i \in DOMAIN ret :
        /\ arg[i].count = 1
        /\ arg[i].fastest = [null |-> FALSE, value |-> maxReplyWindow]
        /\ ret[i].replies[1].id # ret[i].id
    /\ \E j \in DOMAIN ret : arg[j].count = 0 /\ ~arg[j].has /\ arg[j].fastest.null

(***************************************************************************)
(* C30: when collect is run without --days, the period loaded from the     *)
(* configuration is the one used for collection and saved; the period is   *)
(* replaced by [now - days, now], with start <= end, only when a day count *)
(* is given on the command line.                                           *)
(***************************************************************************)
PastOptions ==
    pc \in {"authenticate", "collectPullRequests", "collectComments",
            "saveCollectedData", "done"}

C30_DaysOnlyWhenSupplied ==
    (cmd.name = "collect" /\ PastOptions) =>
        /\ ~cmd.days.given => io.config.period = LoadedConfig.period
        /\ io.config.period # LoadedConfig.period =>
            /\ cmd.days.given
            /\ io.config.period.end = Now
            /\ io.config.period.start <= io.config.period.end

====
